---- MODULE Spec2Model ----
(***************************************************************************)
(* HelioSupervisor: the scoped retrieval and request-isolation layer.      *)
(*   src/app/rag.py         document pool, scoped search, whole-pool index *)
(*   src/app/llm.py         provider key resolution (get_base_llm)         *)
(*   src/app/supervisor.py  run_supervisor: one conversational turn        *)
(* Text is a sequence of one-character strings, so that slicing, strip(),  *)
(* lower(), split() and substring containment are computed, not assumed.   *)
(***************************************************************************)
EXTENDS Integers, Sequences, FiniteSets, TLC

(***************************************************************************)
(* Bounds of the model.                                                    *)
(***************************************************************************)
\* largest top_k a caller passes
MaxK == 2
\* run_supervisor calls started in one run, over all execution contexts
MaxTurns == 2
\* uploads to the document pool in one run of the index model
MaxPoolOps == 1
\* MemoryStore.append calls in one run of the memory model
MaxAppends == 2
\* the largest n handed to load_recent
MaxRecent == 2
\* the longest message list handed to _tools_used_from_messages
MaxMessages == 2
\* the largest digit given as RAG_CHUNK_SIZE or RAG_CHUNK_OVERLAP
MaxChunk == 3
\* the fixed tolerance, in characters, of the chunk length and overlap
Tolerance == 1
\* rag_chunk_size (config.py:72, default 800), scaled down to the texts used here
ChunkSize == 3
\* rag_chunk_overlap (config.py:73, default 100), scaled down likewise
ChunkOverlap == 1

(***************************************************************************)
(* Python str operations on texts.                                         *)
(***************************************************************************)
Min(a, b) == IF a < b THEN a ELSE b

Max(a, b) == IF a > b THEN a ELSE b

\* str.lower() on one character
LowerChar(ch) ==
    CASE ch = "A" -> "a"
      [] ch = "B" -> "b"
      [] OTHER -> ch

\* str.lower()
Lower(s) == [i \in 1..Len(s) |-> LowerChar(s[i])]

\* s[i:j] for 0 <= i, 0 <= j  (Python slice, 0-based, end exclusive, clipped)
Slice(s, i, j) == SubSeq(s, i + 1, Min(j, Len(s)))

IsSpace(ch) == ch = " "

RECURSIVE LStrip(_)
LStrip(s) == IF s # <<>> /\ IsSpace(Head(s)) THEN LStrip(Tail(s)) ELSE s

RECURSIVE RStrip(_)
RStrip(s) ==
    IF s # <<>> /\ IsSpace(s[Len(s)]) THEN RStrip(SubSeq(s, 1, Len(s) - 1)) ELSE s

\* str.strip()
Strip(s) == RStrip(LStrip(s))

\* the first whitespace-delimited token of s (s has no leading whitespace)
RECURSIVE FirstToken(_)
FirstToken(s) ==
    IF s = <<>> \/ IsSpace(Head(s)) THEN <<>> ELSE <<Head(s)>> \o FirstToken(Tail(s))

\* str.split(): the whitespace-separated tokens, none empty
RECURSIVE Split(_)
Split(s) ==
    LET t == LStrip(s)
        w == FirstToken(t)
    IN  IF t = <<>> THEN <<>>
        ELSE <<w>> \o Split(SubSeq(t, Len(w) + 1, Len(t)))

\* needle in hay  (substring containment)
Contains(hay, needle) ==
    \E i \in 1..(Len(hay) - Len(needle) + 1) :
        SubSeq(hay, i, i + Len(needle) - 1) = needle

\* text is a contiguous slice of whole
IsSliceOf(text, whole) == text = <<>> \/ Contains(whole, text)

Range(s) == {s[i] : i \in 1..Len(s)}

(***************************************************************************)
(* The document pool: the directory tree under config.docs_dir.            *)
(* Files holds the canonical relative paths in sorted() order; the         *)
(* folders d and x always exist; x holds only a file whose extension is    *)
(* not allowed, z.txt is a file no scope used here selects, and " s.txt"   *)
(* is a file whose name begins with a blank.                               *)
(***************************************************************************)
Files == <<" s.txt", "a.txt", "d/b.md", "x/c.bin", "z.txt">>

FileSet == Range(Files)

Dirs == {"d", "x"}

\* a file that lies outside the content root, beside it
OutsideFiles == {"../o.txt"}

\* config.rag_allowed_extensions (default md,txt,pdf)
AllowedExtensions == {".md", ".txt", ".pdf"}

\* Path.suffix.lower()
Suffix(f) ==
    CASE f = "a.txt" -> ".txt"
      [] f = "d/b.md" -> ".md"
      [] f = "x/c.bin" -> ".bin"
      [] f = "z.txt" -> ".txt"
      [] f = " s.txt" -> ".txt"
      [] f = "../o.txt" -> ".txt"
      [] OTHER -> ""

\* the files beneath a folder (Path.rglob("*") restricted to files)
FilesUnder(dir) ==
    CASE dir = "d" -> {"d/b.md"}
      [] dir = "x" -> {"x/c.bin"}
      [] OTHER -> {}

\* rel_str.replace("\\", "/").strip()
NormRel(p) ==
    CASE p = "d\\b.md" -> "d/b.md"
      [] p = " a.txt " -> "a.txt"
      [] p = " s.txt" -> "s.txt"
      [] OTHER -> p

\* The node of the tree that docs_dir / rel_str denotes: a member of Files
\* or Dirs, "<root>" for the content root, a member of OutsideFiles (by a
\* ".." segment, or by an absolute path, which replaces docs_dir), "<none>"
\* when nothing is there.
Node(rel) ==
    CASE rel \in {"a.txt", "./a.txt"} -> "a.txt"
      [] rel \in {"../o.txt", "/o.txt"} -> "../o.txt"
      [] rel \in {"d/b.md", "d//b.md"} -> "d/b.md"
      [] rel = "x/c.bin" -> "x/c.bin"
      [] rel = "z.txt" -> "z.txt"
      [] rel = " s.txt" -> " s.txt"
      [] rel \in {"d", "d/"} -> "d"
      [] rel = "x" -> "x"
      [] rel \in {"", "."} -> "<root>"
      [] OTHER -> "<none>"

\* a file of the pool: present or not, readable or not, and its bytes as text
FileState(ex, rd, text) == [ex |-> ex, rd |-> rd, text |-> text]

TextA == <<"A", "b", "c", " ", "d">>

TextB == <<"e", "f", " ", "g", " ">>

TextC == <<"n", "n">>

TextZ == <<"x", "y", " ", "b", "c">>

TextO == <<"o", "o">>

Blank == <<" ", " ">>

\* path.exists()
Exists(fs, rel) ==
    LET n == Node(rel)
    IN  \/ n \in Dirs \/ n = "<root>"
        \/ n \in FileSet \cup OutsideFiles /\ fs[n].ex

\* path.is_file()
IsFile(fs, rel) == Node(rel) \in FileSet \cup OutsideFiles /\ fs[Node(rel)].ex

\* path.is_dir()
IsDir(fs, rel) == Node(rel) \in Dirs \/ Node(rel) = "<root>"

\* Option values: <<>> is None, <<v>> is v
None == <<>>

Some(v) == <<v>>

\* _load_document_text for a text file: None for a suffix outside the
\* allow-list and when reading raises, else the file's text
LoadDocumentText(fs, f) ==
    IF Suffix(f) \notin AllowedExtensions THEN None
    ELSE IF ~fs[f].rd THEN None
    ELSE Some(fs[f].text)

\* one (page_content, metadata) pair
Doc(content, source) == [content |-> content, source |-> source]

\* the loop body of lines 105-111 over sorted(path.rglob("*")), as a
\* recursion over the indices of Files (which is in sorted order)
RECURSIVE LoadFolder(_, _, _)
LoadFolder(fs, under, i) ==
    IF i > Len(Files) THEN <<>>
    ELSE LET f == Files[i]
             t == LoadDocumentText(fs, f)
         IN  (IF f \in under /\ fs[f].ex /\ Suffix(f) \in AllowedExtensions
                 /\ t # None /\ Strip(t[1]) # <<>>
              THEN <<Doc(Strip(t[1]), f)>>
              ELSE <<>>) \o LoadFolder(fs, under, i + 1)

\* _load_documents_from_docs_dir
LoadDocumentsFromDocsDir(fs) == LoadFolder(fs, FileSet, 1)

\* what one entry of relative_paths contributes (lines 92-111)
LoadOnePath(fs, raw_rel) ==
    LET rel == NormRel(raw_rel)
        t == LoadDocumentText(fs, Node(rel))
    IN  IF rel = "" THEN <<>>
        ELSE IF ~Exists(fs, rel) THEN <<>>
        ELSE IF IsFile(fs, rel)
             THEN IF Suffix(Node(rel)) \notin AllowedExtensions THEN <<>>
                  ELSE IF t # None /\ Strip(t[1]) # <<>>
                       THEN <<Doc(Strip(t[1]), rel)>>
                       ELSE <<>>
        ELSE LoadFolder(fs, IF Node(rel) = "<root>" THEN FileSet
                            ELSE FilesUnder(Node(rel)), 1)

\* a load that stops at the first entry that yields no document
RECURSIVE LoadDocumentsUntilDropped(_, _)
LoadDocumentsUntilDropped(fs, paths) ==
    IF paths = <<>> \/ LoadOnePath(fs, Head(paths)) = <<>> THEN <<>>
    ELSE LoadOnePath(fs, Head(paths)) \o LoadDocumentsUntilDropped(fs, Tail(paths))

\* _load_documents_from_paths
RECURSIVE LoadDocumentsFromPaths(_, _)
LoadDocumentsFromPaths(fs, paths) ==
    IF paths = <<>> THEN <<>>
    ELSE LoadOnePath(fs, Head(paths)) \o LoadDocumentsFromPaths(fs, Tail(paths))

\* Python's str order on the path strings that can occur in a scope
StrOrder ==
    << "", " a.txt ", " s.txt", ".", "../o.txt", "./a.txt", "/o.txt", "a.txt",
       "d", "d/", "d//b.md", "d/b.md", "d\\b.md", "missing.txt", "s.txt", "x",
       "x/c.bin", "z.txt" >>

Rank(p) == CHOOSE i \in 1..Len(StrOrder) : StrOrder[i] = p

\* sorted(S) for a set of path strings
RECURSIVE Sorted(_)
Sorted(S) ==
    IF S = {} THEN <<>>
    ELSE LET m == CHOOSE x \in S : \A y \in S : Rank(x) <= Rank(y)
         IN  <<m>> \o Sorted(S \ {m})

\* the allowed files found by rglob under a set of files
AllowedIn(fs, under) ==
    {f \in under : fs[f].ex /\ Suffix(f) \in AllowedExtensions}

\* what one entry of paths adds to out (lines 120-136)
ExpandOnePath(fs, raw_rel) ==
    LET rel == NormRel(raw_rel)
    IN  IF rel \in {"", "."} THEN AllowedIn(fs, FileSet)
        ELSE IF ~Exists(fs, rel) THEN {}
        ELSE IF IsFile(fs, rel) /\ Suffix(Node(rel)) \in AllowedExtensions
             THEN {rel}
        ELSE IF IsDir(fs, rel) THEN AllowedIn(fs, FilesUnder(Node(rel)))
        ELSE {}

\* expand_rag_scope
ExpandRagScope(fs, paths) ==
    Sorted(UNION {ExpandOnePath(fs, paths[i]) : i \in 1..Len(paths)})

(***************************************************************************)
(* Chunking (_get_text_splitter).                                          *)
(***************************************************************************)
\* range(0, n, step) as a sequence of start offsets, step >= 1
RECURSIVE Starts(_, _, _)
Starts(from, n, step) ==
    IF from >= n THEN <<>> ELSE <<from>> \o Starts(from + step, n, step)

\* SimpleSplitter.split_documents on one text: cuts of rag_chunk_size
\* characters, a cut kept (unstripped) when it is not blank
RECURSIVE SimpleSplitFrom(_, _, _)
SimpleSplitFrom(text, offs, size) ==
    IF offs = <<>> THEN <<>>
    ELSE LET chunk == Slice(text, Head(offs), Head(offs) + size)
         IN  (IF Strip(chunk) # <<>> THEN <<chunk>> ELSE <<>>)
                 \o SimpleSplitFrom(text, Tail(offs), size)

SimpleSplit(text) ==
    SimpleSplitFrom(text, Starts(0, Len(text), ChunkSize), ChunkSize)

\* RecursiveCharacterTextSplitter(chunk_size, chunk_overlap) on one text,
\* by its last separator "" alone: windows of chunk_size characters that
\* advance by chunk_size - chunk_overlap, each stripped, blanks dropped
RECURSIVE OverlapSplitFrom(_, _, _)
OverlapSplitFrom(text, offs, size) ==
    IF offs = <<>> THEN <<>>
    ELSE LET chunk == Strip(Slice(text, Head(offs), Head(offs) + size))
         IN  (IF chunk # <<>> THEN <<chunk>> ELSE <<>>)
                 \o OverlapSplitFrom(text, Tail(offs), size)

RecursiveSplit(text) ==
    OverlapSplitFrom(text, Starts(0, Len(text), Max(1, ChunkSize - ChunkOverlap)),
                     ChunkSize)

\* splitter.split_documents(docs): the chunk texts of every document, in order
RECURSIVE SplitDocuments(_, _)
SplitDocuments(lib, raw) ==
    IF raw = <<>> THEN <<>>
    ELSE (IF lib THEN RecursiveSplit(Head(raw).content)
                 ELSE SimpleSplit(Head(raw).content))
             \o SplitDocuments(lib, Tail(raw))

(***************************************************************************)
(* Scoped search (build_scoped_search).                                    *)
(***************************************************************************)
\* config.rag_naive_chunk_max_chars: 0 = use rag_chunk_size * 2
NaiveChunkMaxChars == 0

\* max_chars of the lexical fallback (line 205)
MaxChars == IF NaiveChunkMaxChars # 0 THEN NaiveChunkMaxChars ELSE ChunkSize * 2

\* A search function: the closure build_scoped_search returns, by the data
\* it closes over. kind "none" is the absence of a function (None).
\*   chunks  chunk_texts (semantic) or fallback_chunks (naive)
\*   raw     the contents of the loaded documents (naive)
\*   id      the call that built it
SearchFn(kind, chunks, raw, id) ==
    [kind |-> kind, chunks |-> chunks, raw |-> raw, id |-> id]

NoneFn == SearchFn("none", <<>>, <<>>, "-")

\* _empty, _empty2, _empty3
EmptyFn(id) == SearchFn("empty", <<>>, <<>>, id)

\* the pieces one content contributes to fallback_chunks (lines 208-211)
RECURSIVE PiecesFrom(_, _)
PiecesFrom(content, offs) ==
    IF offs = <<>> THEN <<>>
    ELSE LET piece == Strip(Slice(content, Head(offs), Head(offs) + MaxChars))
         IN  (IF piece # <<>> THEN <<piece>> ELSE <<>>)
                 \o PiecesFrom(content, Tail(offs))

\* fallback_chunks (lines 206-211)
RECURSIVE FallbackChunks(_)
FallbackChunks(raw) ==
    IF raw = <<>> THEN <<>>
    ELSE PiecesFrom(Head(raw).content, Starts(0, Len(Head(raw).content), MaxChars))
             \o FallbackChunks(Tail(raw))

Contents(raw) == [i \in 1..Len(raw) |-> raw[i].content]

\* build_scoped_search(scope_file_paths); lib: the recursive splitter can be
\* imported; ok: FAISS and the embeddings build the index without raising
BuildScopedSearchLoadAll(fs, paths, lib, ok, id) ==
    LET raw == LoadDocumentsFromDocsDir(fs)
        chunks == SplitDocuments(lib, raw)
    IN  IF raw = <<>> THEN EmptyFn(id)
        ELSE IF ok
             THEN IF chunks = <<>> THEN EmptyFn(id)
                  ELSE SearchFn("semantic", chunks, Contents(raw), id)
        ELSE SearchFn("naive", FallbackChunks(raw), Contents(raw), id)

BuildScopedSearch(fs, paths, lib, ok, id) ==
    LET raw == LoadDocumentsFromPaths(fs, paths)
        chunks == SplitDocuments(lib, raw)
    IN  IF paths = <<>> THEN EmptyFn(id)
        ELSE IF raw = <<>> THEN EmptyFn(id)
        ELSE IF ok
             THEN IF chunks = <<>> THEN EmptyFn(id)
                  ELSE SearchFn("semantic", chunks, Contents(raw), id)
        ELSE SearchFn("naive", FallbackChunks(raw), Contents(raw), id)

\* A scope argument: None, or a list of paths
NoScope == [given |-> FALSE, paths |-> <<>>]

Scope(paths) == [given |-> TRUE, paths |-> paths]

\* the value set_rag_scope(scope_paths) stores in the request context
SetRagScopeWholePool(fs, scope, lib, ok, id) ==
    LET expanded == ExpandRagScope(fs, IF scope.paths = <<>> THEN <<".">> ELSE scope.paths)
    IN  IF expanded = <<>> THEN NoneFn
        ELSE BuildScopedSearch(fs, expanded, lib, ok, id)

SetRagScope(fs, scope, lib, ok, id) ==
    LET expanded == ExpandRagScope(fs, scope.paths)
    IN  IF ~scope.given \/ scope.paths = <<>> THEN NoneFn
        ELSE IF expanded = <<>> THEN NoneFn
        ELSE BuildScopedSearch(fs, expanded, lib, ok, id)

(***************************************************************************)
(* Calling a search function.                                              *)
(***************************************************************************)
\* what a call gives its caller: a list of texts, or an exception
Returned(out) == [raised |-> FALSE, out |-> out]

Raised == [raised |-> TRUE, out |-> <<>>]

\* words = [w for w in query.lower().split() if len(w) > 1]
RECURSIVE LongWords(_)
LongWords(tokens) ==
    IF tokens = <<>> THEN <<>>
    ELSE (IF Len(Head(tokens)) > 1 THEN <<Head(tokens)>> ELSE <<>>)
             \o LongWords(Tail(tokens))

QueryWords(query) == LongWords(Split(Lower(query)))

\* score = sum(1 for w in words if w in content_lower)
RECURSIVE Score(_, _)
Score(words, content) ==
    IF words = <<>> THEN 0
    ELSE (IF Contains(Lower(content), Head(words)) THEN 1 ELSE 0)
             + Score(Tail(words), content)

\* scored: the (score, content) pairs with score > 0, in raw order
RECURSIVE Scored(_, _)
Scored(words, contents) ==
    IF contents = <<>> THEN <<>>
    ELSE (IF Score(words, Head(contents)) > 0
          THEN <<[score |-> Score(words, Head(contents)), content |-> Head(contents)]>>
          ELSE <<>>) \o Scored(words, Tail(contents))

\* one step of the stable sort by -score: e goes after every entry whose
\* score is at least its own
RECURSIVE InsertByScore(_, _)
InsertByScore(sorted, e) ==
    IF sorted = <<>> THEN <<e>>
    ELSE IF Head(sorted).score >= e.score
         THEN <<Head(sorted)>> \o InsertByScore(Tail(sorted), e)
         ELSE <<e>> \o sorted

\* scored.sort(key=lambda x: -x[0])
RECURSIVE SortByScore(_)
SortByScore(scored) ==
    IF scored = <<>> THEN <<>>
    ELSE InsertByScore(SortByScore(SubSeq(scored, 1, Len(scored) - 1)),
                       scored[Len(scored)])

\* s[1][:max_chars] with s bound to the content of a scored pair (line 224):
\* the character at index 1 of the content
NaiveHit(content) == Slice(<<content[2]>>, 0, MaxChars)

\* [s[1][:max_chars] for _, s in scored[:k]]; indexing a content of one
\* character raises IndexError
NaiveHits(top) ==
    IF \E i \in 1..Len(top) : Len(top[i].content) < 2 THEN Raised
    ELSE Returned([i \in 1..Len(top) |-> NaiveHit(top[i].content)])

\* _naive(query, k) (lines 213-226)
NaiveSearchNoFirstK(fn, query, k) ==
    NaiveHits(Slice(SortByScore(Scored(QueryWords(query), fn.raw)), 0, k))

NaiveSearch(fn, query, k) ==
    LET scored == SortByScore(Scored(QueryWords(query), fn.raw))
    IN  IF scored # <<>> THEN NaiveHits(Slice(scored, 0, k))
        ELSE Returned(Slice(fn.chunks, 0, k))

\* what store.similarity_search(query, k=top_k) can give on an index of n
\* chunks: up to k distinct chunks in some order, or an exception. hits is
\* the list of chunk positions it returns.
HitLists(n, k) ==
    {h \in UNION {[1..m -> 1..n] : m \in 0..Min(k, n)} :
        \A i, j \in DOMAIN h : i # j => h[i] # h[j]}

\* _search(query, top_k) (lines 194-199)
SemanticSearchNoFirstK(fn, k, hits, fails) ==
    IF fails THEN Raised ELSE Returned([i \in 1..Len(hits) |-> fn.chunks[hits[i]]])

SemanticSearch(fn, k, hits, fails) ==
    IF fails THEN Raised
    ELSE IF hits # <<>> THEN Returned([i \in 1..Len(hits) |-> fn.chunks[hits[i]]])
    ELSE Returned(Slice(fn.chunks, 0, k))

\* fn(query, k) for a search function fn
CallSearchFn(fn, query, k, hits, fails) ==
    CASE fn.kind = "semantic" -> SemanticSearch(fn, k, hits, fails)
      [] fn.kind = "naive" -> NaiveSearch(fn, query, k)
      [] OTHER -> Returned(<<>>)

(***************************************************************************)
(* Provider keys (get_base_llm).                                           *)
(* A secret is a text; an optional secret is None or Some(text).           *)
(***************************************************************************)
\* the providers that take an API key
Providers == {"openai", "google", "perplexity"}

\* a credential set argument: None, or a dict read with keys.get(name)
NoKeys == [given |-> FALSE, m |-> [p \in Providers |-> None]]

Keys(m) == [given |-> TRUE, m |-> m]

\* "__UI_NO_KEY__"
NoKeySentinel == <<"__UI_NO_KEY__">>

\* v is truthy and str(v).strip() is not empty
NonBlank(v) == v # None /\ v[1] # <<>> /\ Strip(v[1]) # <<>>

\* _key(name) (lines 31-33)
UiKey(keys, name) == IF NonBlank(keys.m[name]) THEN keys.m[name] ELSE None

\* config.openai_api_key and its siblings: os.getenv(NAME) or None
ConfigKey(env, name) == IF env[name] # None /\ env[name][1] # <<>> THEN env[name] ELSE None

\* what get_base_llm gives: an exception, or a model built with key
\* (None: no key argument is passed to the provider's client)
LlmRaised == [raised |-> TRUE, explicit |-> FALSE, key |-> None]

Llm(explicit, key) == [raised |-> FALSE, explicit |-> explicit, key |-> key]

\* the key get_base_llm hands to the provider (lines 27-91); ctx_keys is
\* _api_keys_ctx.get() and env is os.environ at the time of the call
GetBaseLlmEnvFallback(provider, api_keys, ctx_keys, env) ==
    LET keys == IF api_keys.given THEN api_keys ELSE ctx_keys
    IN  IF provider \in Providers
        THEN Llm(keys.given, IF UiKey(keys, provider) # None
                             THEN UiKey(keys, provider)
                             ELSE ConfigKey(env, provider))
        ELSE IF provider = "ollama" THEN Llm(keys.given, None)
        ELSE LlmRaised

GetBaseLlm(provider, api_keys, ctx_keys, env) ==
    LET keys == IF api_keys.given THEN api_keys ELSE ctx_keys
        use_ui_keys == keys.given
        ui == IF UiKey(keys, provider) # None THEN UiKey(keys, provider)
              ELSE Some(NoKeySentinel)
    IN  CASE provider = "openai" ->
                Llm(use_ui_keys, IF use_ui_keys THEN ui ELSE ConfigKey(env, provider))
          [] provider \in {"google", "perplexity"} ->
                Llm(use_ui_keys,
                    IF use_ui_keys THEN ui
                    ELSE IF ConfigKey(env, provider) # None
                         THEN ConfigKey(env, provider) ELSE Some(<<>>))
          [] provider = "ollama" -> Llm(use_ui_keys, None)
          [] OTHER -> LlmRaised

(***************************************************************************)
(* State.                                                                  *)
(***************************************************************************)
VARIABLES
    pool,               \* the document pool: [FileSet -> FileState]
    rag_search_fn_ctx,  \* _rag_search_fn_ctx: one value per context slot
    api_keys_ctx,       \* _api_keys_ctx: one value per context slot
    environ,            \* os.environ, the three provider key variables
    turn,               \* run_supervisor in each execution context
    probe,              \* one build_scoped_search / set_rag_scope call and a
                        \* call of the function it gave
    llm,                \* one get_base_llm call
    vector_store,       \* _vector_store, the cached whole-pool index
    index_disk,         \* the durable copy under config.rag_index_dir
    idx,                \* the whole-pool operations: rag_rebuild_index in
                        \* progress, the last operation and its result
    expanded,           \* one expand_rag_scope call and a second on its result
    memory_store,       \* memory_store: its buffer, the log file, and the
                        \* append and load_recent calls in each thread
    tools_used,         \* one _tools_used_from_messages call
    config,             \* the creation of config (AppConfig) from the
                        \* environment, and a first use of its chunking values
    told                \* what one turn tells the reasoning loop about
                        \* retrieval

vars ==
    <<pool, rag_search_fn_ctx, api_keys_ctx, environ, turn, probe, llm,
      vector_store, index_disk, idx, expanded, memory_store, tools_used,
      config, told>>

\* the execution contexts (threads, each with its own contextvars.Context)
Ctx == {"c1", "c2"}

\* The slot of a ContextVar that execution context c reads and writes:
\* its own. SharedSlot is the single module-level variable instead.
SharedSlot(c) == "c1"

SlotOf(c) == c

\* a whole-pool index (in memory or on disk) by the chunk texts it holds;
\* built FALSE is the absence of an index
NoIndex == [built |-> FALSE, chunks |-> <<>>]

Index(chunks) == [built |-> TRUE, chunks |-> chunks]

\* os.environ before any turn starts: OPENAI_API_KEY and GOOGLE_API_KEY
\* set, PERPLEXITY_API_KEY unset (entries are named by provider)
Env0 ==
    [p \in Providers |->
        CASE p = "openai" -> Some(<<"E", "o">>)
          [] p = "google" -> Some(<<"E", "g">>)
          [] OTHER -> None]

\* the order of the loop over the key variables (line 175), which is also
\* the order of env_backup.items() (line 242)
EnvOrder == <<"openai", "google", "perplexity">>

\* config.llm.provider (LLM_PROVIDER, default "openai"): the provider of
\* the get_base_llm() calls the tools make
ConfigProvider == "openai"

\* what a call last saw of get_rag_search_fn() or get_base_llm(provider)
NotSeen == [seen |-> "-", fn |-> NoneFn, provider |-> "-", llm |-> LlmRaised]

SeenFn(fn) == [seen |-> "fn", fn |-> fn, provider |-> "-", llm |-> LlmRaised]

SeenLlm(provider, l) == [seen |-> "llm", fn |-> NoneFn, provider |-> provider, llm |-> l]

\* run_supervisor in one execution context:
\*   pc          where the call is ("idle": no call in flight)
\*   api_keys, rag_scope   its arguments
\*   i           the position of a loop over EnvOrder
\*   env_backup  the local env_backup
\*   exc         an exception is propagating
\*   n           the calls started in this context so far
\*   mine        the value this call's set_rag_scope stored
\*   saw         what this call's last get_rag_search_fn() or get_base_llm
\*               gave it
\*   ended       how the last call ended
\*   appended    the records this call has appended to memory_store so far
\*   include_critique   its argument, read at line 229
IdleTurn ==
    [pc |-> "idle", api_keys |-> NoKeys, rag_scope |-> NoScope,
     i |-> 0,
     env_backup |-> [p \in Providers |-> None], exc |-> FALSE, n |-> 0,
     mine |-> NoneFn, saw |-> NotSeen, ended |-> "-",
     appended |-> <<>>, include_critique |-> FALSE]

\* the whole-pool operations:
\*   pc     "cleared" between the two statements of rag_rebuild_index
\*   ops    the uploads so far
\*   last   the operation that ended last
\*   lib    the recursive splitter can be imported in this process
\*   query, k, res   the last rag_search call and what it gave
\*   naive  that call ran _rag_search_naive
\*   found  the number of documents similarity_search gave it
IdleIdx ==
    [pc |-> "idle", ops |-> 0, last |-> "-", lib |-> FALSE, query |-> <<>>,
     k |-> 0, res |-> Returned(<<>>), naive |-> FALSE, found |-> 0]

IdleLlm ==
    [phase |-> "off", provider |-> "-", api_keys |-> NoKeys, out |-> LlmRaised]

\* no expand_rag_scope call yet
IdleExpand ==
    [phase |-> "off", paths |-> <<>>, once |-> <<>>, twice |-> <<>>,
     docs |-> Returned(<<>>)]

\* memory_store and the calls on it:
\*   buffer   MemoryStore.buffer, the ConversationTurn records appended
\*   file     the text of conversations.jsonl, None while it does not exist
\*   file0    the text the file had when the process started
\*   thr      per thread: pc "write" between buffer.append and the write of
\*            an append call, and the record that call holds
\*   appends  the append calls started so far
\*   load     the last load_recent call: its n and what it gave
IdleMemory ==
    [phase |-> "off", buffer |-> <<>>, file |-> None, file0 |-> None,
     thr |-> [c \in Ctx |-> [pc |-> "idle", turn |-> <<>>]],
     appends |-> 0,
     load |-> [done |-> FALSE, n |-> 0, res |-> Returned(<<>>)]]

\* config not created yet
IdleConfig ==
    [phase |-> "off", env_size |-> None, env_overlap |-> None, raised |-> FALSE,
     rag_chunk_size |-> 0, rag_chunk_overlap |-> 0,
     lib |-> FALSE, text |-> <<>>, res |-> Returned(<<>>)]

\* no turn observed yet
IdleTold ==
    [phase |-> "off", rag_scope |-> NoScope, rag_documents_only |-> FALSE,
     fn |-> NoneFn, hint |-> FALSE, answer_only |-> FALSE,
     include_web_fetch |-> TRUE, offline |-> FALSE]

\* no _tools_used_from_messages call yet
IdleTools == [phase |-> "off", messages |-> <<>>, res |-> Returned(<<>>)]

(***************************************************************************)
(* SpecSearch: build_scoped_search and set_rag_scope as functions of the   *)
(* pool, the scope and the backend, and one call of the result.            *)
(***************************************************************************)
Present(text) == FileState(TRUE, TRUE, text)

Unreadable(text) == FileState(TRUE, FALSE, text)

Absent == FileState(FALSE, FALSE, <<>>)

MakePool(a, b, z) ==
    [f \in FileSet \cup OutsideFiles |->
        CASE f = "a.txt" -> a
          [] f = "d/b.md" -> b
          [] f = "z.txt" -> z
          [] f = " s.txt" -> Absent
          [] f = "../o.txt" -> Present(TextO)
          [] OTHER -> Present(TextC)]

Pools ==
    {MakePool(a, b, z) :
        a \in {Present(TextA), Present(Blank), Unreadable(TextA), Absent},
        b \in {Present(TextB), Absent},
        z \in {Present(TextZ), Absent}}

ScopeInputs ==
    {NoScope, Scope(<<>>), Scope(<<"a.txt">>), Scope(<<"d">>), Scope(<<"x">>),
     Scope(<<"missing.txt">>), Scope(<<"x/c.bin">>), Scope(<<".">>),
     Scope(<<"">>), Scope(<<"./a.txt", "a.txt">>), Scope(<<"d/b.md", "a.txt">>),
     Scope(<<"d\\b.md">>), Scope(<<" a.txt ", "d/">>), Scope(<<"d//b.md">>)}

Queries ==
    {<<"A", "b", "c">>,            \* a word of a.txt
     <<"b", "c">>,                 \* inside a word of a.txt, no word of it
     <<"q", "q">>,                 \* in no document
     <<"b", " ", "c">>,            \* words of one character only
     <<"x", "y", " ", "b", "c">>,  \* two words of z.txt, one inside a.txt
     <<"e", "f", " ", "a", "b", "c">>}

Probe(phase, scope, lib, ok, via, paths, fn, query, k, fails, res) ==
    [phase |-> phase, scope |-> scope, lib |-> lib, ok |-> ok, via |-> via,
     paths |-> paths, fn |-> fn, query |-> query, k |-> k, fails |-> fails,
     res |-> res]

IdleProbe ==
    Probe("off", NoScope, FALSE, FALSE, "-", <<>>, NoneFn, <<>>, 0, FALSE,
          Returned(<<>>))

InitSearch ==
    /\ pool \in Pools
    /\ rag_search_fn_ctx = [c \in Ctx |-> NoneFn]
    /\ \E scope \in ScopeInputs, lib \in BOOLEAN, ok \in BOOLEAN :
          probe = Probe("start", scope, lib, ok, "-", <<>>, NoneFn, <<>>, 0,
                        FALSE, Returned(<<>>))
    /\ api_keys_ctx = [c \in Ctx |-> NoKeys]
    /\ environ = Env0
    /\ turn = [c \in Ctx |-> IdleTurn]
    /\ llm = IdleLlm
    /\ vector_store = NoIndex
    /\ index_disk \in {NoIndex, Index(SplitDocuments(TRUE, LoadDocumentsFromDocsDir(pool)))}
    /\ idx = IdleIdx
    /\ expanded = IdleExpand
    /\ memory_store = IdleMemory
    /\ tools_used = IdleTools
    /\ config = IdleConfig
    /\ told = IdleTold

\* fn = build_scoped_search(paths), called with the scope's paths as given
BuildScopedSearchCall ==
    /\ probe.phase = "start"
    /\ probe' = [probe EXCEPT
                    !.phase = "built", !.via = "build", !.paths = probe.scope.paths,
                    !.fn = BuildScopedSearch(pool, probe.scope.paths, probe.lib,
                                             probe.ok, "c1")]
    /\ UNCHANGED <<pool, rag_search_fn_ctx, api_keys_ctx, environ, turn, llm, vector_store, index_disk, idx,
                   expanded, memory_store, tools_used,
                   config, told>>

\* set_rag_scope(scope) in context c1, then fn = get_rag_search_fn()
SetRagScopeCall ==
    /\ probe.phase = "start"
    /\ rag_search_fn_ctx' =
          [rag_search_fn_ctx EXCEPT ![SlotOf("c1")] =
              SetRagScope(pool, probe.scope, probe.lib, probe.ok, "c1")]
    /\ probe' = [probe EXCEPT
                    !.phase = "built", !.via = "set",
                    !.paths = ExpandRagScope(pool, probe.scope.paths),
                    !.fn = rag_search_fn_ctx'[SlotOf("c1")]]
    /\ UNCHANGED <<pool, api_keys_ctx, environ, turn, llm, vector_store, index_disk, idx,
                   expanded, memory_store, tools_used,
                   config, told>>

\* fn(query, k): the index answers with hits, or its backend raises
SearchCall ==
    /\ probe.phase = "built"
    /\ probe.fn.kind # "none"
    /\ \E query \in Queries, k \in 0..MaxK, fails \in BOOLEAN :
        \E hits \in (IF probe.fn.kind = "semantic"
                     THEN HitLists(Len(probe.fn.chunks), k) ELSE {<<>>}) :
          /\ fails => probe.fn.kind = "semantic" /\ hits = <<>>
          /\ probe' = [probe EXCEPT
                          !.phase = "searched", !.query = query, !.k = k,
                          !.fails = fails,
                          !.res = CallSearchFn(probe.fn, query, k, hits, fails)]
    /\ UNCHANGED <<pool, rag_search_fn_ctx, api_keys_ctx, environ, turn, llm, vector_store, index_disk, idx,
                   expanded, memory_store, tools_used,
                   config, told>>

NextSearch == BuildScopedSearchCall \/ SetRagScopeCall \/ SearchCall

SpecSearch == InitSearch /\ [][NextSearch]_vars

(***************************************************************************)
(* SpecLlm: get_base_llm as a function of its arguments, the request       *)
(* context and the environment.                                            *)
(***************************************************************************)
\* the values an entry of a credential set can have: None (or no entry),
\* "", " ", a secret
KeyEntries(p) ==
    {None, Some(<<>>), Some(<<" ">>),
     Some(CASE p = "openai" -> <<"U", "o">>
            [] p = "google" -> <<"U", "g">>
            [] OTHER -> <<"U", "p", " ">>)}

CredentialSets ==
    {NoKeys} \cup {Keys(m) : m \in [Providers -> UNION {KeyEntries(p) : p \in Providers}]}

EnvValues(p) ==
    {None, Some(<<>>),
     Some(CASE p = "openai" -> <<"E", "o">>
            [] p = "google" -> <<"E", "g">>
            [] OTHER -> <<"E", "p">>)}

LlmProviders == Providers \cup {"ollama", "other"}

InitLlm ==
    /\ pool = MakePool(Present(TextA), Present(TextB), Present(TextZ))
    /\ rag_search_fn_ctx = [c \in Ctx |-> NoneFn]
    /\ \E ck \in {NoKeys, Keys([p \in Providers |-> None]),
                  Keys([p \in Providers |-> Some(<<"U", "c">>)])} :
          api_keys_ctx = [c \in Ctx |-> IF c = "c1" THEN ck ELSE NoKeys]
    /\ environ \in {e \in [Providers -> UNION {EnvValues(p) : p \in Providers}] :
                       \A p \in Providers : e[p] \in EnvValues(p)}
    /\ turn = [c \in Ctx |-> IdleTurn]
    /\ probe = IdleProbe
    /\ \E provider \in LlmProviders, keys \in CredentialSets :
          /\ keys.given => \A p \in Providers : keys.m[p] \in KeyEntries(p)
          /\ llm = [phase |-> "start", provider |-> provider, api_keys |-> keys,
                    out |-> LlmRaised]
    /\ vector_store = NoIndex
    /\ index_disk = NoIndex
    /\ idx = IdleIdx
    /\ expanded = IdleExpand
    /\ memory_store = IdleMemory
    /\ tools_used = IdleTools
    /\ config = IdleConfig
    /\ told = IdleTold

\* get_base_llm(provider, api_keys=...) in context c1
GetBaseLlmCall ==
    /\ llm.phase = "start"
    /\ llm' = [llm EXCEPT
                  !.phase = "done",
                  !.out = GetBaseLlm(llm.provider, llm.api_keys,
                                     api_keys_ctx[SlotOf("c1")], environ)]
    /\ UNCHANGED <<pool, rag_search_fn_ctx, api_keys_ctx, environ, turn, probe,
                   vector_store, index_disk, idx,
                   expanded, memory_store, tools_used,
                   config, told>>

NextLlm == GetBaseLlmCall

SpecLlm == InitLlm /\ [][NextLlm]_vars

(***************************************************************************)
(* Spec: turns (run_supervisor) running concurrently, one per execution    *)
(* context, over a shared process environment and document pool.           *)
(***************************************************************************)
TurnKeys ==
    {NoKeys,
     Keys([p \in Providers |-> IF p = "openai" THEN Some(<<"U", "o">>) ELSE None])}

TurnScopes == {NoScope, Scope(<<"a.txt">>), Scope(<<"d">>)}

Init ==
    /\ pool = MakePool(Present(TextA), Present(TextB), Present(TextZ))
    /\ rag_search_fn_ctx = [c \in Ctx |-> NoneFn]
    /\ api_keys_ctx = [c \in Ctx |-> NoKeys]
    /\ environ = Env0
    /\ turn = [c \in Ctx |-> IdleTurn]
    /\ probe = IdleProbe
    /\ llm = IdleLlm
    /\ vector_store = NoIndex
    /\ index_disk = NoIndex
    /\ idx = IdleIdx
    /\ expanded = IdleExpand
    /\ memory_store = IdleMemory
    /\ tools_used = IdleTools
    /\ config = IdleConfig
    /\ told = IdleTold

\* the run_supervisor calls started so far in the contexts of S
RECURSIVE Started(_)
Started(S) ==
    IF S = {} THEN 0
    ELSE LET c == CHOOSE x \in S : TRUE IN turn[c].n + Started(S \ {c})

\* run_supervisor is called (lines 172-174): env_backup = {}, and a given
\* credential set goes into the request context
RunSupervisor(c) ==
    /\ turn[c].pc = "idle"
    /\ Started(Ctx) < MaxTurns
    /\ \E keys \in TurnKeys, scope \in TurnScopes :
          /\ turn' = [turn EXCEPT ![c] =
                [IdleTurn EXCEPT
                    !.pc = IF keys.given THEN "pop" ELSE "scope",
                    !.api_keys = keys, !.rag_scope = scope,
                    !.i = 1, !.n = turn[c].n + 1]]
          /\ api_keys_ctx' =
                IF keys.given
                THEN [api_keys_ctx EXCEPT ![SlotOf(c)] = keys]
                ELSE api_keys_ctx
    /\ UNCHANGED <<pool, rag_search_fn_ctx, environ, probe, llm, vector_store,
                   index_disk, idx,
                   expanded, memory_store, tools_used,
                   config, told>>

\* one round of the loop of lines 175-176:
\* env_backup[env_name] = os.environ.pop(env_name, None)
PopEnv(c) ==
    /\ turn[c].pc = "pop"
    /\ LET name == EnvOrder[turn[c].i]
       IN  /\ environ' = [environ EXCEPT ![name] = None]
           /\ turn' = [turn EXCEPT
                 ![c].env_backup[name] = environ[name],
                 ![c].i = turn[c].i + 1,
                 ![c].pc = IF turn[c].i = Len(EnvOrder) THEN "scope" ELSE "pop"]
    /\ UNCHANGED <<pool, rag_search_fn_ctx, api_keys_ctx, probe, llm,
                   vector_store, index_disk, idx,
                   expanded, memory_store, tools_used,
                   config, told>>

\* rag.set_rag_scope(rag_scope) returns (line 178)
SetScope(c) ==
    /\ turn[c].pc = "scope"
    /\ \E lib \in BOOLEAN, ok \in BOOLEAN :
          LET fn == SetRagScope(pool, turn[c].rag_scope, lib, ok, c)
          IN  /\ rag_search_fn_ctx' = [rag_search_fn_ctx EXCEPT ![SlotOf(c)] = fn]
              /\ turn' = [turn EXCEPT ![c].pc = "history", ![c].mine = fn]
    /\ UNCHANGED <<pool, api_keys_ctx, environ, probe, llm, vector_store,
                   index_disk, idx,
                   expanded, memory_store, tools_used,
                   config, told>>

\* how a call ended
Ended(exc) == IF exc THEN "raised" ELSE "returned"

\* the record of a call that ended: its arguments stay known, its locals
\* and what it saw are gone
EndedTurn(t, how) ==
    [IdleTurn EXCEPT !.api_keys = t.api_keys, !.rag_scope = t.rag_scope,
                     !.n = t.n, !.ended = how]

\* rag.set_rag_scope(rag_scope) raises out of expand_rag_scope (line 236):
\* the call is outside the try, so run_supervisor ends here
SetScopeRaises(c) ==
    /\ turn[c].pc = "scope"
    /\ turn[c].rag_scope.given /\ turn[c].rag_scope.paths # <<>>
    /\ turn' = [turn EXCEPT ![c] = EndedTurn(turn[c], "raised before try")]
    /\ UNCHANGED <<pool, rag_search_fn_ctx, api_keys_ctx, environ, probe, llm,
                   vector_store, index_disk, idx,
                   expanded, memory_store, tools_used,
                   config, told>>

\* memory_store.load_recent and the history messages (lines 187-205)
LoadHistory(c) ==
    /\ turn[c].pc = "history"
    /\ turn' = [turn EXCEPT ![c].pc = "graph"]
    /\ UNCHANGED <<pool, rag_search_fn_ctx, api_keys_ctx, environ, probe, llm,
                   vector_store, index_disk, idx,
                   expanded, memory_store, tools_used,
                   config, told>>

\* create_supervisor_graph (lines 208-215): get_base_llm with the call's
\* llm_provider and api_keys; an unsupported provider raises
CreateGraph(c) ==
    /\ turn[c].pc = "graph"
    /\ \E provider \in Providers \cup {"other"} :
          LET l == GetBaseLlm(provider, turn[c].api_keys,
                              api_keys_ctx[SlotOf(c)], environ)
          IN  turn' = [turn EXCEPT
                          ![c].saw = IF l.raised THEN NotSeen ELSE SeenLlm(provider, l),
                          ![c].pc = IF l.raised THEN "finally" ELSE "invoke",
                          ![c].exc = l.raised]
    /\ UNCHANGED <<pool, rag_search_fn_ctx, api_keys_ctx, environ, probe, llm,
                   vector_store, index_disk, idx,
                   expanded, memory_store, tools_used,
                   config, told>>

\* during graph.invoke the rag_search tool asks for the turn's search
\* function: get_rag_search_fn()
ToolGetRagSearchFn(c) ==
    /\ turn[c].pc = "invoke"
    /\ turn' = [turn EXCEPT ![c].saw = SeenFn(rag_search_fn_ctx[SlotOf(c)])]
    /\ UNCHANGED <<pool, rag_search_fn_ctx, api_keys_ctx, environ, probe, llm,
                   vector_store, index_disk, idx,
                   expanded, memory_store, tools_used,
                   config, told>>

\* during graph.invoke a tool (plan_tasks, summarize_text) calls
\* get_base_llm() with no arguments
ToolGetBaseLlm(c) ==
    /\ turn[c].pc = "invoke"
    /\ turn' = [turn EXCEPT ![c].saw =
                  SeenLlm(ConfigProvider,
                          GetBaseLlm(ConfigProvider, NoKeys,
                                     api_keys_ctx[SlotOf(c)], environ))]
    /\ UNCHANGED <<pool, rag_search_fn_ctx, api_keys_ctx, environ, probe, llm,
                   vector_store, index_disk, idx,
                   expanded, memory_store, tools_used,
                   config, told>>

\* graph.invoke returns (lines 216-223)
InvokeReturns(c) ==
    /\ turn[c].pc = "invoke"
    /\ turn' = [turn EXCEPT ![c].pc = "append", ![c].saw = NotSeen]
    /\ UNCHANGED <<pool, rag_search_fn_ctx, api_keys_ctx, environ, probe, llm,
                   vector_store, index_disk, idx,
                   expanded, memory_store, tools_used,
                   config, told>>

\* the records of lines 225-226, and the [SELF_CRITIQUE] record of line 237
TurnRecords == <<"user", "assistant">>

CritiqueRecord == <<"critique">>

\* the two memory_store.append calls (lines 225-226); include_critique
\* decides whether the critique follows (line 229)
AppendTurn(c) ==
    /\ turn[c].pc = "append"
    /\ \E include_critique \in BOOLEAN :
          turn' = [turn EXCEPT ![c].pc = IF include_critique THEN "critique"
                                         ELSE "finally",
                               ![c].appended = TurnRecords,
                               ![c].include_critique = include_critique]
    /\ UNCHANGED <<pool, rag_search_fn_ctx, api_keys_ctx, environ, probe, llm,
                   vector_store, index_disk, idx,
                   expanded, memory_store, tools_used,
                   config, told>>

\* the self-critique and its append (lines 229-237)
Critique(c) ==
    /\ turn[c].pc = "critique"
    /\ turn' = [turn EXCEPT ![c].pc = "finally",
                            ![c].appended = @ \o CritiqueRecord]
    /\ UNCHANGED <<pool, rag_search_fn_ctx, api_keys_ctx, environ, probe, llm,
                   vector_store, index_disk, idx,
                   expanded, memory_store, tools_used,
                   config, told>>

\* a step inside the try raises: history load, graph construction,
\* graph.invoke, memory append, critique
Raise(c) ==
    /\ turn[c].pc \in {"history", "graph", "invoke", "append", "critique"}
    /\ turn' = [turn EXCEPT ![c].pc = "finally", ![c].exc = TRUE,
                            ![c].saw = NotSeen]
    /\ UNCHANGED <<pool, rag_search_fn_ctx, api_keys_ctx, environ, probe, llm,
                   vector_store, index_disk, idx,
                   expanded, memory_store, tools_used,
                   config, told>>

\* The value the finally clause stores in the request context:
\* rag.set_rag_scope(None) (line 240). ClearedOnSuccess is the clearing done
\* at the end of the try block instead.
ClearedOnSuccess(cur, exc) == IF exc THEN cur ELSE NoneFn

Cleared(cur, exc) == SetRagScope(pool, NoScope, FALSE, FALSE, "-")

\* finally: rag.set_rag_scope(None); gc.collect() (lines 240-241); with an
\* empty env_backup the loop of line 242 has no round
FinallyScope(c) ==
    /\ turn[c].pc = "finally"
    /\ rag_search_fn_ctx' =
          [rag_search_fn_ctx EXCEPT ![SlotOf(c)] =
              Cleared(rag_search_fn_ctx[SlotOf(c)], turn[c].exc)]
    /\ turn' = [turn EXCEPT ![c] =
                  IF turn[c].api_keys.given
                  THEN [turn[c] EXCEPT !.i = 1, !.pc = "restore", !.mine = NoneFn]
                  ELSE EndedTurn(turn[c], Ended(turn[c].exc))]
    /\ UNCHANGED <<pool, api_keys_ctx, environ, probe, llm, vector_store,
                   index_disk, idx,
                   expanded, memory_store, tools_used,
                   config, told>>

\* one round of the loop of lines 242-244 over env_backup.items()
RestoreEnv(c) ==
    /\ turn[c].pc = "restore"
    /\ LET name == EnvOrder[turn[c].i]
       IN  /\ environ' = IF turn[c].env_backup[name] # None
                         THEN [environ EXCEPT ![name] = turn[c].env_backup[name]]
                         ELSE environ
           /\ turn' = [turn EXCEPT ![c] =
                 IF turn[c].i = Len(EnvOrder)
                 THEN EndedTurn(turn[c], Ended(turn[c].exc))
                 ELSE [turn[c] EXCEPT !.i = turn[c].i + 1]]
    /\ UNCHANGED <<pool, rag_search_fn_ctx, api_keys_ctx, probe, llm,
                   vector_store, index_disk, idx,
                   expanded, memory_store, tools_used,
                   config, told>>

Next ==
    \E c \in Ctx :
        \/ RunSupervisor(c) \/ PopEnv(c) \/ SetScope(c) \/ SetScopeRaises(c)
        \/ LoadHistory(c) \/ CreateGraph(c) \/ ToolGetRagSearchFn(c)
        \/ ToolGetBaseLlm(c) \/ InvokeReturns(c) \/ AppendTurn(c)
        \/ Critique(c) \/ Raise(c) \/ FinallyScope(c) \/ RestoreEnv(c)

Spec == Init /\ [][Next]_vars

(***************************************************************************)
(* SpecNested: a run_supervisor call made while another is in flight in    *)
(* the same execution context (a direct call during the outer call's       *)
(* graph.invoke). Both calls read and write the context slot of the outer  *)
(* one; the outer call does not step while the inner one is in flight.     *)
(***************************************************************************)
\* the record of the outer call, and of the call nested in it
Outer == "c1"

Inner == "c2"

\* lines 172-174 of the nested call
InnerRunSupervisor ==
    /\ turn[Outer].pc = "invoke"
    /\ turn[Inner].pc = "idle"
    /\ Started(Ctx) < MaxTurns
    /\ \E keys \in TurnKeys, scope \in TurnScopes \cup {Scope(<<"x">>)} :
          /\ turn' = [turn EXCEPT ![Inner] =
                [IdleTurn EXCEPT
                    !.pc = IF keys.given THEN "pop" ELSE "scope",
                    !.api_keys = keys, !.rag_scope = scope,
                    !.i = 1, !.n = turn[Inner].n + 1]]
          /\ api_keys_ctx' =
                IF keys.given
                THEN [api_keys_ctx EXCEPT ![SlotOf(Outer)] = keys]
                ELSE api_keys_ctx
    /\ UNCHANGED <<pool, rag_search_fn_ctx, environ, probe, llm, vector_store,
                   index_disk, idx,
                   expanded, memory_store, tools_used,
                   config, told>>

\* rag.set_rag_scope(rag_scope) of the nested call (line 178)
InnerSetScope ==
    /\ turn[Inner].pc = "scope"
    /\ \E lib \in BOOLEAN, ok \in BOOLEAN :
          LET fn == SetRagScope(pool, turn[Inner].rag_scope, lib, ok, Inner)
          IN  /\ rag_search_fn_ctx' = [rag_search_fn_ctx EXCEPT ![SlotOf(Outer)] = fn]
              /\ turn' = [turn EXCEPT ![Inner].pc = "history", ![Inner].mine = fn]
    /\ UNCHANGED <<pool, api_keys_ctx, environ, probe, llm, vector_store,
                   index_disk, idx,
                   expanded, memory_store, tools_used,
                   config, told>>

\* create_supervisor_graph of the nested call (lines 208-215)
InnerCreateGraph ==
    /\ turn[Inner].pc = "graph"
    /\ \E provider \in Providers \cup {"other"} :
          LET l == GetBaseLlm(provider, turn[Inner].api_keys,
                              api_keys_ctx[SlotOf(Outer)], environ)
          IN  turn' = [turn EXCEPT
                          ![Inner].saw = IF l.raised THEN NotSeen ELSE SeenLlm(provider, l),
                          ![Inner].pc = IF l.raised THEN "finally" ELSE "invoke",
                          ![Inner].exc = l.raised]
    /\ UNCHANGED <<pool, rag_search_fn_ctx, api_keys_ctx, environ, probe, llm,
                   vector_store, index_disk, idx,
                   expanded, memory_store, tools_used,
                   config, told>>

\* the finally clause of the nested call (lines 240-241)
InnerFinallyScope ==
    /\ turn[Inner].pc = "finally"
    /\ rag_search_fn_ctx' =
          [rag_search_fn_ctx EXCEPT ![SlotOf(Outer)] =
              Cleared(rag_search_fn_ctx[SlotOf(Outer)], turn[Inner].exc)]
    /\ turn' = [turn EXCEPT ![Inner] =
                  IF turn[Inner].api_keys.given
                  THEN [turn[Inner] EXCEPT !.i = 1, !.pc = "restore", !.mine = NoneFn]
                  ELSE EndedTurn(turn[Inner], Ended(turn[Inner].exc))]
    /\ UNCHANGED <<pool, api_keys_ctx, environ, probe, llm, vector_store,
                   index_disk, idx,
                   expanded, memory_store, tools_used,
                   config, told>>

\* the outer call steps only while no nested call is in flight
OuterRuns == turn[Inner].pc = "idle"

NextNested ==
    \/ OuterRuns /\ RunSupervisor(Outer)
    \/ OuterRuns /\ PopEnv(Outer)
    \/ OuterRuns /\ SetScope(Outer)
    \/ OuterRuns /\ SetScopeRaises(Outer)
    \/ OuterRuns /\ LoadHistory(Outer)
    \/ OuterRuns /\ CreateGraph(Outer)
    \/ OuterRuns /\ ToolGetRagSearchFn(Outer)
    \/ OuterRuns /\ ToolGetBaseLlm(Outer)
    \/ OuterRuns /\ InvokeReturns(Outer)
    \/ OuterRuns /\ AppendTurn(Outer)
    \/ OuterRuns /\ Critique(Outer)
    \/ OuterRuns /\ Raise(Outer)
    \/ OuterRuns /\ FinallyScope(Outer)
    \/ OuterRuns /\ RestoreEnv(Outer)
    \/ InnerRunSupervisor
    \/ PopEnv(Inner)
    \/ InnerSetScope
    \/ SetScopeRaises(Inner)
    \/ LoadHistory(Inner)
    \/ InnerCreateGraph
    \/ InvokeReturns(Inner)
    \/ AppendTurn(Inner)
    \/ Critique(Inner)
    \/ Raise(Inner)
    \/ InnerFinallyScope
    \/ RestoreEnv(Inner)

SpecNested == Init /\ [][NextNested]_vars

(***************************************************************************)
(* SpecIndex: the whole-pool index (_get_vector_store, rag_search,         *)
(* rag_rebuild_index) over a document pool that receives uploads.          *)
(***************************************************************************)
\* "__placeholder__", the one text of the store _empty_vector_store builds
Placeholder == <<"__placeholder__">>

\* _empty_vector_store(embeddings)
EmptyVectorStore == Index(<<Placeholder>>)

\* what _get_vector_store leaves: an exception, or the store it returns
\* with the cache and the durable copy as it leaves them
StoreRaised(vs, disk) == [raised |-> TRUE, vs |-> vs, disk |-> disk]

StoreGot(vs, disk) == [raised |-> FALSE, vs |-> vs, disk |-> disk]

\* _get_vector_store() (lines 305-346). vs, disk: the cache and the durable
\* copy before the call; lib: the recursive splitter can be imported;
\* emb_ok: FAISS and the embeddings are available; load_ok: FAISS.load_local
\* reads the durable copy without raising.
GetVectorStore(vs, disk, fs, lib, emb_ok, load_ok) ==
    LET raw == LoadDocumentsFromDocsDir(fs)
        chunks == SplitDocuments(lib, raw)
    IN  IF vs.built THEN StoreGot(vs, disk)
        ELSE IF ~emb_ok THEN StoreRaised(vs, disk)
        ELSE IF disk.built /\ load_ok THEN StoreGot(disk, disk)
        ELSE IF raw = <<>> THEN StoreGot(EmptyVectorStore, disk)
        ELSE IF chunks = <<>> THEN StoreGot(EmptyVectorStore, disk)
        ELSE StoreGot(Index(chunks), Index(chunks))

\* emb_ok and load_ok are outcomes of steps the call takes: the embeddings
\* are asked for only without a cached index (line 308), load_local only
\* with embeddings and a durable copy (line 320); a step not taken has the
\* outcome TRUE
Consulted(vs, disk, emb_ok, load_ok) ==
    /\ vs.built => emb_ok
    /\ (vs.built \/ ~emb_ok \/ ~disk.built) => load_ok

\* _rag_search_naive(query, k) (lines 372-387)
RagSearchNaive(fs, query, k) ==
    LET raw == LoadDocumentsFromDocsDir(fs)
    IN  IF raw = <<>> THEN Returned(<<>>)
        ELSE NaiveHits(Slice(SortByScore(Scored(QueryWords(query), Contents(raw))),
                             0, k))

\* the list with nothing filtered out
KeepPlaceholder(texts) == texts

\* [c for c in chunks if c and c.strip() != "__placeholder__"] (line 367)
RECURSIVE DropPlaceholder(_)
DropPlaceholder(texts) ==
    IF texts = <<>> THEN <<>>
    ELSE (IF Head(texts) # <<>> /\ Strip(Head(texts)) # Placeholder
          THEN <<Head(texts)>> ELSE <<>>) \o DropPlaceholder(Tail(texts))

\* the pools the index model starts from, and what an upload can write
\* (save_uploaded_to_docs keeps no "/" in a name: top-level files only)
IndexPools == {MakePool(a, Absent, Absent) : a \in {Present(TextA), Absent}}

Uploads == {<<"a.txt", TextA>>, <<"a.txt", Blank>>, <<"z.txt", TextB>>}

IndexQueries == {<<"A", "b", "c">>, <<"q", "q">>}

\* what store.similarity_search can give on the whole-pool index: the
\* nearest k of its n chunks, all n when k is larger, listed here by rising
\* position
RankedHits(n, k) ==
    {h \in HitLists(n, k) :
        /\ Len(h) = Min(n, k)
        /\ \A i, j \in DOMAIN h : i < j => h[i] < h[j]}

InitIndex ==
    /\ pool \in IndexPools
    /\ rag_search_fn_ctx = [c \in Ctx |-> NoneFn]
    /\ api_keys_ctx = [c \in Ctx |-> NoKeys]
    /\ environ = Env0
    /\ turn = [c \in Ctx |-> IdleTurn]
    /\ probe = IdleProbe
    /\ llm = IdleLlm
    /\ vector_store = NoIndex
    /\ index_disk = NoIndex
    /\ \E lib \in BOOLEAN : idx = [IdleIdx EXCEPT !.lib = lib]
    /\ expanded = IdleExpand
    /\ memory_store = IdleMemory
    /\ tools_used = IdleTools
    /\ config = IdleConfig
    /\ told = IdleTold

\* save_uploaded_to_docs(file_bytes, filename) (lines 155-163): the file is
\* written, over a file of the same name if there is one
SaveUploadedToDocs ==
    /\ idx.ops < MaxPoolOps
    /\ \E up \in Uploads : pool' = [pool EXCEPT ![up[1]] = Present(up[2])]
    /\ idx' = [idx EXCEPT !.ops = idx.ops + 1, !.last = "upload"]
    /\ UNCHANGED <<rag_search_fn_ctx, api_keys_ctx, environ, turn, probe, llm,
                   vector_store, index_disk,
                   expanded, memory_store, tools_used,
                   config, told>>

\* rag_search(query, top_k) (lines 355-369): the store answers with hits,
\* or getting or searching it raises and the keyword search answers. The
\* caller may be a thread other than the one inside rag_rebuild_index.
RagSearch ==
    /\ \E query \in IndexQueries, k \in 1..MaxK, emb_ok \in BOOLEAN,
          load_ok \in BOOLEAN, fails \in BOOLEAN :
        LET got == GetVectorStore(vector_store, index_disk, pool, idx.lib,
                                  emb_ok, load_ok)
        IN  \E hits \in (IF got.raised \/ fails THEN {<<>>}
                         ELSE RankedHits(Len(got.vs.chunks), k)) :
              /\ Consulted(vector_store, index_disk, emb_ok, load_ok)
              /\ vector_store' = got.vs
              /\ index_disk' = got.disk
              /\ idx' = [idx EXCEPT
                    !.last = "search", !.query = query, !.k = k,
                    !.naive = got.raised \/ fails, !.found = Len(hits),
                    !.res = IF got.raised \/ fails
                            THEN RagSearchNaive(pool, query, k)
                            ELSE Returned(DropPlaceholder(
                                     [i \in 1..Len(hits) |-> got.vs.chunks[hits[i]]]))]
    /\ UNCHANGED <<pool, rag_search_fn_ctx, api_keys_ctx, environ, turn, probe,
                   llm,
                   expanded, memory_store, tools_used,
                   config, told>>

\* rag_rebuild_index, first statement: _vector_store = None (line 393)
RebuildClear ==
    /\ idx.pc = "idle"
    /\ vector_store' = NoIndex
    /\ idx' = [idx EXCEPT !.pc = "cleared", !.last = "rebuild started"]
    /\ UNCHANGED <<pool, rag_search_fn_ctx, api_keys_ctx, environ, turn, probe,
                   llm, index_disk,
                   expanded, memory_store, tools_used,
                   config, told>>

\* rag_rebuild_index, the rest: _get_vector_store() and the count of the
\* documents (lines 394-397); an exception of _get_vector_store propagates
RebuildGet ==
    /\ idx.pc = "cleared"
    /\ \E emb_ok \in BOOLEAN, load_ok \in BOOLEAN :
        LET got == GetVectorStore(vector_store, index_disk, pool, idx.lib,
                                  emb_ok, load_ok)
        IN  /\ Consulted(vector_store, index_disk, emb_ok, load_ok)
            /\ vector_store' = got.vs
            /\ index_disk' = got.disk
            /\ idx' = [idx EXCEPT
                  !.pc = "idle",
                  !.last = IF got.raised THEN "rebuild raised" ELSE "rebuilt"]
    /\ UNCHANGED <<pool, rag_search_fn_ctx, api_keys_ctx, environ, turn, probe,
                   llm,
                   expanded, memory_store, tools_used,
                   config, told>>

NextIndex == SaveUploadedToDocs \/ RagSearch \/ RebuildClear \/ RebuildGet

SpecIndex == InitIndex /\ [][NextIndex]_vars

(***************************************************************************)
(* SpecExpand: expand_rag_scope applied to a list of scope paths, and      *)
(* again to its own result, over an unchanged pool.                        *)
(***************************************************************************)
\* pools for the expansion: each of a.txt, d/b.md and " s.txt" is there or
\* not
ExpandPools ==
    {[MakePool(a, b, Absent) EXCEPT ![" s.txt"] = s] :
        a \in {Present(TextA), Present(Blank), Unreadable(TextA), Absent},
        b \in {Present(TextB), Absent},
        s \in {Present(TextZ), Absent}}

\* lists of scope paths: files, folders, the root as "." and as "", missing
\* paths, duplicates and other spellings of one file
ExpandInputs ==
    {<<>>, <<".">>, <<"">>, <<"a.txt">>, <<"a.txt", "a.txt">>,
     <<"./a.txt", "a.txt">>, <<"d", "d/b.md">>, <<"d//b.md", "d/b.md">>,
     <<"d\\b.md", "d">>, <<" a.txt ", "d/">>, <<"missing.txt", "x">>,
     <<"x/c.bin", "z.txt">>, <<".", "a.txt">>,
     <<"a.txt", "x/c.bin", "d/b.md">>, <<"d", "a.txt">>,
     <<"../o.txt">>, <<"/o.txt", "a.txt">>}

InitExpand ==
    /\ pool \in ExpandPools
    /\ rag_search_fn_ctx = [c \in Ctx |-> NoneFn]
    /\ api_keys_ctx = [c \in Ctx |-> NoKeys]
    /\ environ = Env0
    /\ turn = [c \in Ctx |-> IdleTurn]
    /\ probe = IdleProbe
    /\ llm = IdleLlm
    /\ vector_store = NoIndex
    /\ index_disk = NoIndex
    /\ idx = IdleIdx
    /\ \E paths \in ExpandInputs :
          expanded = [IdleExpand EXCEPT !.phase = "start", !.paths = paths]
    /\ memory_store = IdleMemory
    /\ tools_used = IdleTools
    /\ config = IdleConfig
    /\ told = IdleTold

\* once = expand_rag_scope(paths)
ExpandCall ==
    /\ expanded.phase = "start"
    /\ expanded' = [expanded EXCEPT
                       !.phase = "once",
                       !.once = ExpandRagScope(pool, expanded.paths)]
    /\ UNCHANGED <<pool, rag_search_fn_ctx, api_keys_ctx, environ, turn, probe,
                   llm, vector_store, index_disk, idx, memory_store, tools_used,
                   config, told>>

\* twice = expand_rag_scope(once)
ExpandAgain ==
    /\ expanded.phase = "once"
    /\ expanded' = [expanded EXCEPT
                       !.phase = "twice",
                       !.twice = ExpandRagScope(pool, expanded.once)]
    /\ UNCHANGED <<pool, rag_search_fn_ctx, api_keys_ctx, environ, turn, probe,
                   llm, vector_store, index_disk, idx, memory_store, tools_used,
                   config, told>>

\* docs = _load_documents_from_paths(paths)
LoadCall ==
    /\ expanded.phase = "start"
    /\ expanded' = [expanded EXCEPT
                       !.phase = "loaded",
                       !.docs = Returned(LoadDocumentsFromPaths(pool, expanded.paths))]
    /\ UNCHANGED <<pool, rag_search_fn_ctx, api_keys_ctx, environ, turn, probe,
                   llm, vector_store, index_disk, idx, memory_store, tools_used,
                   config, told>>

NextExpand == ExpandCall \/ ExpandAgain \/ LoadCall

SpecExpand == InitExpand /\ [][NextExpand]_vars

(***************************************************************************)
(* Conversation memory (memory.py): the log file is a text, a sequence of  *)
(* characters; a record is written as one line by json.dumps and read back *)
(* by splitlines and json.loads.                                           *)
(***************************************************************************)
NL == "\n"

BS == "\\"

\* ConversationTurn(role, content); the timestamp is not modelled
ConversationTurn(role, content) == [role |-> role, content |-> content]

Roles == {"user", "assistant"}

\* json.dumps of a string, without the quotes: a line feed becomes the two
\* characters backslash n, a backslash is doubled
RECURSIVE Escape(_)
Escape(text) ==
    IF text = <<>> THEN <<>>
    ELSE (CASE Head(text) = NL -> <<BS, "n">>
            [] Head(text) = BS -> <<BS, BS>>
            [] OTHER -> <<Head(text)>>) \o Escape(Tail(text))

\* the escapes of a JSON string are well formed
RECURSIVE WellEscaped(_)
WellEscaped(text) ==
    IF text = <<>> THEN TRUE
    ELSE IF Head(text) = BS
         THEN /\ Len(text) >= 2 /\ text[2] \in {BS, "n"}
              /\ WellEscaped(Tail(Tail(text)))
         ELSE WellEscaped(Tail(text))

\* the string a well-formed JSON string stands for
RECURSIVE Unescape(_)
Unescape(text) ==
    IF text = <<>> THEN <<>>
    ELSE IF Head(text) = BS
         THEN <<IF text[2] = "n" THEN NL ELSE BS>> \o Unescape(Tail(Tail(text)))
         ELSE <<Head(text)>> \o Unescape(Tail(text))

\* json.dumps(turn.__dict__): the object as one line of text
Dumps(t) == <<"{", t.role, ":">> \o Escape(t.content) \o <<"}">>

\* ConversationTurn(**json.loads(l)): the record of a line, None when
\* json.loads or the constructor raises
Loads(l) ==
    IF /\ Len(l) >= 4 /\ l[1] = "{" /\ l[2] \in Roles /\ l[3] = ":"
       /\ l[Len(l)] = "}" /\ WellEscaped(Slice(l, 3, Len(l) - 1))
    THEN Some(ConversationTurn(l[2], Unescape(Slice(l, 3, Len(l) - 1))))
    ELSE None

\* str.splitlines(): the lines of a text, without their line feeds; a
\* final line feed opens no further line
RECURSIVE SplitLines(_)
SplitLines(text) ==
    IF text = <<>> THEN <<>>
    ELSE IF \E i \in 1..Len(text) : text[i] = NL
         THEN LET i == CHOOSE i \in 1..Len(text) :
                          text[i] = NL /\ \A j \in 1..(i - 1) : text[j] # NL
              IN  <<Slice(text, 0, i - 1)>> \o SplitLines(Slice(text, i, Len(text)))
         ELSE <<text>>

\* seq[start:] for a Python list and an integer start of either sign
PySliceFrom(seq, start) ==
    IF start < 0 THEN Slice(seq, Max(Len(seq) + start, 0), Len(seq))
    ELSE Slice(seq, Min(start, Len(seq)), Len(seq))

\* [ConversationTurn(**json.loads(l)) for l in lines] (line 37): the first
\* line that does not load raises out of the comprehension
RECURSIVE LoadLines(_)
LoadLines(lines) ==
    IF lines = <<>> THEN Returned(<<>>)
    ELSE LET t == Loads(Head(lines))
             rest == LoadLines(Tail(lines))
         IN  IF t = None \/ rest.raised THEN Raised
             ELSE Returned(<<t[1]>> \o rest.out)

\* MemoryStore.load_recent(n) on a log file (None: no file)
LoadRecentOf(file, n) ==
    IF file = None THEN Returned(<<>>)
    ELSE LoadLines(PySliceFrom(SplitLines(file[1]), 0 - n))

\* what f.write(json.dumps(turn.__dict__) + "\n") in mode "a" leaves
WriteLine(file, t) ==
    Some((IF file = None THEN <<>> ELSE file[1]) \o Dumps(t) \o <<NL>>)

(***************************************************************************)
(* SpecMemory: two threads of one process call memory_store.append and     *)
(* memory_store.load_recent on a log file that earlier runs (or an editor) *)
(* left behind.                                                            *)
(***************************************************************************)
\* message texts: one holds a line feed and a backslash
Contents0 == {<<"h">>, <<"a", NL, BS>>}

Turn1 == ConversationTurn("user", <<"h">>)

Turn2 == ConversationTurn("assistant", <<"a", NL, BS>>)

Turn3 == ConversationTurn("user", <<"k">>)

\* the text of a log file that holds the given lines
RECURSIVE FileOf(_)
FileOf(lines) ==
    IF lines = <<>> THEN <<>>
    ELSE Head(lines) \o <<NL>> \o FileOf(Tail(lines))

\* the log file at process start: none, empty, well-formed records, a
\* line that is no JSON between records, a blank line at the end
Files0 ==
    {None, Some(<<>>),
     Some(FileOf(<<Dumps(Turn1)>>)),
     Some(FileOf(<<Dumps(Turn1), Dumps(Turn2), Dumps(Turn3)>>)),
     Some(FileOf(<<Dumps(Turn1), <<"x">>, Dumps(Turn2)>>)),
     Some(FileOf(<<Dumps(Turn1), <<>>>>))}

InitMemory ==
    /\ pool = MakePool(Absent, Absent, Absent)
    /\ rag_search_fn_ctx = [c \in Ctx |-> NoneFn]
    /\ api_keys_ctx = [c \in Ctx |-> NoKeys]
    /\ environ = Env0
    /\ turn = [c \in Ctx |-> IdleTurn]
    /\ probe = IdleProbe
    /\ llm = IdleLlm
    /\ vector_store = NoIndex
    /\ index_disk = NoIndex
    /\ idx = IdleIdx
    /\ expanded = IdleExpand
    /\ \E f \in Files0 :
          memory_store = [IdleMemory EXCEPT !.phase = "on", !.file = f, !.file0 = f]
    /\ tools_used = IdleTools
    /\ config = IdleConfig
    /\ told = IdleTold

\* append(role, content), lines 23-28: the record is made and appended to
\* the buffer
AppendBuffer(c) ==
    /\ memory_store.phase = "on"
    /\ memory_store.thr[c].pc = "idle"
    /\ memory_store.appends < MaxAppends
    /\ \E role \in Roles, content \in Contents0 :
          memory_store' = [memory_store EXCEPT
              !.buffer = Append(@, ConversationTurn(role, content)),
              !.thr[c] = [pc |-> "write", turn |-> <<ConversationTurn(role, content)>>],
              !.appends = @ + 1]
    /\ UNCHANGED <<pool, rag_search_fn_ctx, api_keys_ctx, environ, turn, probe,
                   llm, vector_store, index_disk, idx, expanded, tools_used,
                   config, told>>

\* append, lines 29-30: the file is opened for appending and the line is
\* written
AppendWrite(c) ==
    /\ memory_store.thr[c].pc = "write"
    /\ memory_store' = [memory_store EXCEPT
          !.file = WriteLine(@, memory_store.thr[c].turn[1]),
          !.thr[c] = [pc |-> "idle", turn |-> <<>>]]
    /\ UNCHANGED <<pool, rag_search_fn_ctx, api_keys_ctx, environ, turn, probe,
                   llm, vector_store, index_disk, idx, expanded, tools_used,
                   config, told>>

\* append, lines 29-30: open or write raises (the file cannot be written,
\* the disk is full) and the exception leaves append
AppendWriteRaises(c) ==
    /\ memory_store.thr[c].pc = "write"
    /\ memory_store' = [memory_store EXCEPT
          !.thr[c] = [pc |-> "idle", turn |-> <<>>]]
    /\ UNCHANGED <<pool, rag_search_fn_ctx, api_keys_ctx, environ, turn, probe,
                   llm, vector_store, index_disk, idx, expanded, tools_used,
                   config, told>>

\* load_recent(n), lines 32-37
LoadRecent(c) ==
    /\ memory_store.phase = "on"
    /\ memory_store.thr[c].pc = "idle"
    /\ \E n \in 0..MaxRecent :
          memory_store' = [memory_store EXCEPT
              !.load = [done |-> TRUE, n |-> n,
                        res |-> LoadRecentOf(memory_store.file, n)]]
    /\ UNCHANGED <<pool, rag_search_fn_ctx, api_keys_ctx, environ, turn, probe,
                   llm, vector_store, index_disk, idx, expanded, tools_used,
                   config, told>>

NextMemory ==
    \E c \in Ctx :
        \/ AppendBuffer(c)
        \/ AppendWrite(c)
        \/ AppendWriteRaises(c)
        \/ LoadRecent(c)

SpecMemory == InitMemory /\ [][NextMemory]_vars

(***************************************************************************)
(* Configuration (config.py): the chunking values read from the            *)
(* environment when config = AppConfig() is created, and their first use   *)
(* by _get_text_splitter.                                                  *)
(***************************************************************************)
DigitChars == <<"0", "1", "2", "3", "4", "5", "6", "7", "8", "9">>

IsDigit(ch) == \E i \in 1..Len(DigitChars) : DigitChars[i] = ch

DigitValue(ch) == (CHOOSE i \in 1..Len(DigitChars) : DigitChars[i] = ch) - 1

RECURSIVE DigitsValue(_, _)
DigitsValue(acc, s) ==
    IF s = <<>> THEN acc
    ELSE DigitsValue(acc * Len(DigitChars) + DigitValue(Head(s)), Tail(s))

\* int(s): surrounding blanks dropped, an optional sign, then digits;
\* None stands for ValueError
IntOf(s) ==
    LET t == Strip(s)
        signed == t # <<>> /\ Head(t) \in {"-", "+"}
        body == IF signed THEN Tail(t) ELSE t
    IN  IF body = <<>> \/ \E i \in 1..Len(body) : ~IsDigit(body[i])
        THEN None
        ELSE Some(IF Head(t) = "-" THEN 0 - DigitsValue(0, body)
                  ELSE DigitsValue(0, body))

\* _env_int(key, default): int(os.getenv(key, str(default))), the default
\* on ValueError
EnvInt(value, default) ==
    IF value = None \/ IntOf(value[1]) = None THEN default ELSE IntOf(value[1])[1]

\* the defaults of rag_chunk_size and rag_chunk_overlap
DefaultChunkSize == 800

DefaultChunkOverlap == 100

\* the splitter _get_text_splitter returns, applied to one document text.
\* RecursiveCharacterTextSplitter refuses chunk_size <= 0, chunk_overlap < 0
\* and chunk_overlap > chunk_size with ValueError; SimpleSplitter reads
\* rag_chunk_size only, and range() raises ValueError on a step of 0 and is
\* empty on a negative step.
SplitText(lib, size, overlap, text) ==
    IF lib
    THEN IF size <= 0 \/ overlap < 0 \/ overlap > size
         THEN Raised
         ELSE Returned(OverlapSplitFrom(text,
                  Starts(0, Len(text), Max(1, size - overlap)), size))
    ELSE IF size = 0 THEN Raised
         ELSE IF size < 0 THEN Returned(<<>>)
         ELSE Returned(SimpleSplitFrom(text, Starts(0, Len(text), size), size))

(***************************************************************************)
(* SpecConfig: config is created from the environment at import, then a    *)
(* document text is split with its chunking values.                        *)
(***************************************************************************)
\* the values of RAG_CHUNK_SIZE and RAG_CHUNK_OVERLAP: unset, empty, not a
\* number, negative, padded, and the digits up to MaxChunk
EnvTexts ==
    {None, Some(<<>>), Some(<<"a">>), Some(<<"-", "1">>), Some(<<" ", "2">>)}
        \cup {Some(<<DigitChars[n + 1]>>) : n \in 0..MaxChunk}

TextP == <<"p", "q", "r", "s", "t", "u", "v">>

ChunkTexts == {TextP, TextA}

InitConfig ==
    /\ pool = MakePool(Absent, Absent, Absent)
    /\ rag_search_fn_ctx = [c \in Ctx |-> NoneFn]
    /\ api_keys_ctx = [c \in Ctx |-> NoKeys]
    /\ environ = Env0
    /\ turn = [c \in Ctx |-> IdleTurn]
    /\ probe = IdleProbe
    /\ llm = IdleLlm
    /\ vector_store = NoIndex
    /\ index_disk = NoIndex
    /\ idx = IdleIdx
    /\ expanded = IdleExpand
    /\ memory_store = IdleMemory
    /\ tools_used = IdleTools
    /\ told = IdleTold
    /\ \E size \in EnvTexts, overlap \in EnvTexts :
          config = [IdleConfig EXCEPT !.phase = "env", !.env_size = size,
                                      !.env_overlap = overlap]

\* config = AppConfig() (config.py:110): the field factories of lines 72
\* and 73; nothing in the construction raises on these values
AppConfig ==
    /\ config.phase = "env"
    /\ config' = [config EXCEPT
                     !.phase = "created",
                     !.raised = FALSE,
                     !.rag_chunk_size = EnvInt(config.env_size, DefaultChunkSize),
                     !.rag_chunk_overlap =
                         EnvInt(config.env_overlap, DefaultChunkOverlap)]
    /\ UNCHANGED <<pool, rag_search_fn_ctx, api_keys_ctx, environ, turn, probe,
                   llm, vector_store, index_disk, idx, expanded, memory_store,
                   tools_used, told>>

\* the first use: splitter = _get_text_splitter();
\* splitter.split_documents(docs) on one document
GetTextSplitter ==
    /\ config.phase = "created"
    /\ \E lib \in BOOLEAN, text \in ChunkTexts :
          config' = [config EXCEPT
                        !.phase = "split", !.lib = lib, !.text = text,
                        !.res = SplitText(lib, config.rag_chunk_size,
                                          config.rag_chunk_overlap, text)]
    /\ UNCHANGED <<pool, rag_search_fn_ctx, api_keys_ctx, environ, turn, probe,
                   llm, vector_store, index_disk, idx, expanded, memory_store,
                   tools_used, told>>

NextConfig == AppConfig \/ GetTextSplitter

SpecConfig == InitConfig /\ [][NextConfig]_vars

(***************************************************************************)
(* What a turn tells the reasoning loop about retrieval: the hint on the   *)
(* user input, the prompt blocks, and the tool list.                       *)
(***************************************************************************)
\* "if rag_scope": the argument is a list with at least one entry
ScopeGiven(rag_scope) == rag_scope.given /\ rag_scope.paths # <<>>

\* effective_input starts with "[RAG is enabled for this run. ...]"
\* (supervisor.py:181-186)
EffectiveInputHinted(rag_scope) == ScopeGiven(rag_scope)

\* get_supervisor_system_prompt: the answer-only block (lines 40-43), the
\* documents-only block and the tool list without web_fetch (lines 44-48)
GetSupervisorSystemPrompt(rag_scope, rag_documents_only) ==
    [answer_only |-> ScopeGiven(rag_scope),
     offline |-> ScopeGiven(rag_scope) /\ rag_documents_only]

\* include_web_fetch of create_supervisor_graph (line 90)
IncludeWebFetch(rag_scope, rag_documents_only) ==
    ~(ScopeGiven(rag_scope) /\ rag_documents_only)

(***************************************************************************)
(* SpecTold: one turn up to the construction of its graph.                 *)
(***************************************************************************)
InitTold ==
    /\ pool \in Pools
    /\ rag_search_fn_ctx = [c \in Ctx |-> NoneFn]
    /\ api_keys_ctx = [c \in Ctx |-> NoKeys]
    /\ environ = Env0
    /\ turn = [c \in Ctx |-> IdleTurn]
    /\ probe = IdleProbe
    /\ llm = IdleLlm
    /\ vector_store = NoIndex
    /\ index_disk = NoIndex
    /\ idx = IdleIdx
    /\ expanded = IdleExpand
    /\ memory_store = IdleMemory
    /\ tools_used = IdleTools
    /\ config = IdleConfig
    /\ \E rag_scope \in ScopeInputs, rag_documents_only \in BOOLEAN :
          told = [IdleTold EXCEPT !.phase = "start", !.rag_scope = rag_scope,
                                  !.rag_documents_only = rag_documents_only]

\* rag.set_rag_scope(rag_scope) (supervisor.py:178)
TurnSetRagScope ==
    /\ told.phase = "start"
    /\ \E lib \in BOOLEAN, ok \in BOOLEAN :
          LET fn == SetRagScope(pool, told.rag_scope, lib, ok, "c1")
          IN  /\ rag_search_fn_ctx' = [rag_search_fn_ctx EXCEPT ![SlotOf("c1")] = fn]
              /\ told' = [told EXCEPT !.phase = "scoped", !.fn = fn]
    /\ UNCHANGED <<pool, api_keys_ctx, environ, turn, probe, llm, vector_store,
                   index_disk, idx, expanded, memory_store, tools_used, config>>

\* effective_input (supervisor.py:181-186)
EffectiveInput ==
    /\ told.phase = "scoped"
    /\ told' = [told EXCEPT !.phase = "input",
                            !.hint = EffectiveInputHinted(told.rag_scope)]
    /\ UNCHANGED <<pool, rag_search_fn_ctx, api_keys_ctx, environ, turn, probe,
                   llm, vector_store, index_disk, idx, expanded, memory_store,
                   tools_used, config>>

\* create_supervisor_graph (supervisor.py:208-215 and 89-100): the tools
\* and the system prompt of the agent
CreateSupervisorGraph ==
    /\ told.phase = "input"
    /\ LET prompt == GetSupervisorSystemPrompt(told.rag_scope,
                                               told.rag_documents_only)
       IN  told' = [told EXCEPT
                       !.phase = "told",
                       !.answer_only = prompt.answer_only,
                       !.offline = prompt.offline,
                       !.include_web_fetch =
                           IncludeWebFetch(told.rag_scope, told.rag_documents_only)]
    /\ UNCHANGED <<pool, rag_search_fn_ctx, api_keys_ctx, environ, turn, probe,
                   llm, vector_store, index_disk, idx, expanded, memory_store,
                   tools_used, config>>

NextTold == TurnSetRagScope \/ EffectiveInput \/ CreateSupervisorGraph

SpecTold == InitTold /\ [][NextTold]_vars

(***************************************************************************)
(* The tool-use trace (_tools_used_from_messages). A message is a dict or  *)
(* an object; kind is its "type" entry or its class ("-": no entry); the   *)
(* entries or attributes tool_calls and name are Option values, None when  *)
(* missing. A tool call is a dict or an object with name and tool.         *)
(***************************************************************************)
ToolCall(shape, name, tool) == [shape |-> shape, name |-> name, tool |-> tool]

Message(shape, kind, tool_calls, name) ==
    [shape |-> shape, kind |-> kind, tool_calls |-> tool_calls, name |-> name]

\* Python truth of an optional string: neither None nor ""
Truthy(v) == v # None /\ v[1] # ""

\* _tool_name_from_tool_call(tc): name, or else tool (lines 113-115, the
\* same for a dict and for an object)
ToolNameFromToolCall(tc) == IF Truthy(tc.name) THEN tc.name ELSE tc.tool

\* if name and name not in seen: seen.add(name); out.append(name)
AddName(out, name) ==
    IF Truthy(name) /\ name[1] \notin Range(out) THEN Append(out, name[1]) ELSE out

\* the loop over tool calls (lines 126-130 and 139-143)
RECURSIVE AddToolCalls(_, _)
AddToolCalls(out, tcs) ==
    IF tcs = <<>> THEN out
    ELSE AddToolCalls(AddName(out, ToolNameFromToolCall(Head(tcs))), Tail(tcs))

\* the list of an optional tool_calls value: getattr(...) or []
OrEmpty(tool_calls) == IF tool_calls = None THEN <<>> ELSE tool_calls[1]

\* the body of the loop over messages (lines 123-148)
AddMessage(out, m) ==
    IF m.shape = "dict"
    THEN IF m.kind = "ai" /\ OrEmpty(m.tool_calls) # <<>>
         THEN AddToolCalls(out, m.tool_calls[1])
         ELSE IF m.kind = "tool" /\ Truthy(m.name)
              THEN AddName(out, m.name)
              ELSE out
    ELSE AddName(AddToolCalls(out, OrEmpty(m.tool_calls)), m.name)

RECURSIVE ToolsUsedFrom(_, _)
ToolsUsedFrom(out, messages) ==
    IF messages = <<>> THEN out
    ELSE ToolsUsedFrom(AddMessage(out, Head(messages)), Tail(messages))

\* _tools_used_from_messages(messages)
ToolsUsedFromMessages(messages) == Returned(ToolsUsedFrom(<<>>, messages))

(***************************************************************************)
(* SpecTools: one _tools_used_from_messages call on a list of messages.    *)
(***************************************************************************)
CallX == ToolCall("dict", Some("X"), None)

CallY == ToolCall("obj", None, Some("Y"))

CallBare == ToolCall("dict", None, None)

\* the messages of a run: assistant, tool-result and human records of
\* both shapes, with fields missing
Messages0 ==
    {Message("dict", "ai", Some(<<CallX>>), None),
     Message("dict", "ai", Some(<<CallY, CallX>>), None),
     Message("dict", "ai", None, None),
     Message("dict", "tool", None, Some("Y")),
     Message("dict", "tool", None, None),
     Message("dict", "human", None, Some("X")),
     Message("dict", "-", Some(<<CallX>>), Some("Y")),
     Message("obj", "ai", Some(<<CallX>>), None),
     Message("obj", "ai", Some(<<CallBare>>), None),
     Message("obj", "ai", None, None),
     Message("obj", "tool", None, Some("Y")),
     Message("obj", "human", None, Some("Z"))}

MessageLists == UNION {[1..n -> Messages0] : n \in 0..MaxMessages}

InitTools ==
    /\ pool = MakePool(Absent, Absent, Absent)
    /\ rag_search_fn_ctx = [c \in Ctx |-> NoneFn]
    /\ api_keys_ctx = [c \in Ctx |-> NoKeys]
    /\ environ = Env0
    /\ turn = [c \in Ctx |-> IdleTurn]
    /\ probe = IdleProbe
    /\ llm = IdleLlm
    /\ vector_store = NoIndex
    /\ index_disk = NoIndex
    /\ idx = IdleIdx
    /\ expanded = IdleExpand
    /\ memory_store = IdleMemory
    /\ config = IdleConfig
    /\ told = IdleTold
    /\ \E messages \in MessageLists :
          tools_used = [IdleTools EXCEPT !.phase = "start", !.messages = messages]

\* tools_used = _tools_used_from_messages(messages) (supervisor.py:223)
ToolsUsedCall ==
    /\ tools_used.phase = "start"
    /\ tools_used' = [tools_used EXCEPT
                         !.phase = "done",
                         !.res = ToolsUsedFromMessages(tools_used.messages)]
    /\ UNCHANGED <<pool, rag_search_fn_ctx, api_keys_ctx, environ, turn, probe,
                   llm, vector_store, index_disk, idx, expanded, memory_store,
                   config, told>>

NextTools == ToolsUsedCall

SpecTools == InitTools /\ [][NextTools]_vars

(***************************************************************************)
(* Properties of scoped search (SpecSearch).                               *)
(***************************************************************************)
\* the allowed files present in the pool that path p denotes or contains
SelectedBy(fs, p) ==
    LET n == Node(NormRel(p))
    IN  {f \in FileSet :
            /\ fs[f].ex /\ Suffix(f) \in AllowedExtensions
            /\ n = f \/ f \in FilesUnder(n) \/ (n = "<root>" /\ NormRel(p) # "")}

\* the scope is absent, empty, or selects no file of the pool; handed to
\* set_rag_scope, a blank path stands for the content root
SelectsNoFile(fs, scope, via) ==
    \/ ~scope.given
    \/ \A i \in 1..Len(scope.paths) :
          SelectedBy(fs, IF via = "set" /\ NormRel(scope.paths[i]) = ""
                         THEN "." ELSE scope.paths[i]) = {}

\* the documents the paths select that load with content
LoadableIn(fs, paths) ==
    {f \in UNION {SelectedBy(fs, paths[i]) : i \in 1..Len(paths)} :
        fs[f].rd /\ Strip(fs[f].text) # <<>>}

\* the lowercase words of a text
WordsOf(text) == Range(Split(Lower(text)))

\* C6: for a scope that is absent, empty or expands to zero files,
\* build_scoped_search gives a function that returns [] whatever the query
\* and k, and set_rag_scope leaves no function that yields content in the
\* request context.
C6_EmptyScopeDisablesRetrieval ==
    (probe.phase \in {"built", "searched"} /\ SelectsNoFile(pool, probe.scope, probe.via)) =>
        /\ probe.via = "build" => probe.fn.kind = "empty"
        /\ probe.via = "set" =>
              /\ rag_search_fn_ctx[SlotOf("c1")].kind \in {"none", "empty"}
              /\ probe.fn = rag_search_fn_ctx[SlotOf("c1")]
        /\ probe.phase = "searched" => probe.res = Returned(<<>>)

\* a non-empty scope that expands to zero files was built and queried
C6_Witness ==
    /\ probe.phase = "searched" /\ probe.via = "build"
    /\ probe.scope.given /\ probe.scope.paths # <<>>
    /\ SelectsNoFile(pool, probe.scope, probe.via)
    /\ probe.k >= 1 /\ probe.res = Returned(<<>>)

\* C7: when the scope's files yield at least one chunk, the query shares no
\* word with any chunk and k >= 1, a search that the index answers returns
\* between 1 and k texts, on the semantic path and on the lexical path.
C7_FirstKFallback ==
    (/\ probe.phase = "searched"
     /\ LoadableIn(pool, probe.paths) # {}
     /\ \A f \in LoadableIn(pool, probe.paths) :
            WordsOf(probe.query) \cap WordsOf(pool[f].text) = {}
     /\ probe.k >= 1
     /\ ~probe.fails) =>
        /\ probe.fn.kind \in {"semantic", "naive"}
        /\ ~probe.res.raised
        /\ Len(probe.res.out) >= 1
        /\ Len(probe.res.out) <= probe.k

\* the lexical path scored nothing and returned the first chunks
C7_Witness ==
    /\ probe.phase = "searched" /\ probe.fn.kind = "naive"
    /\ probe.k >= 1
    /\ Scored(QueryWords(probe.query), probe.fn.raw) = <<>>
    /\ probe.res = Returned(Slice(probe.fn.chunks, 0, probe.k))
    /\ Len(probe.res.out) >= 1

\* C8: a search function whose index was built does not raise when a later
\* query against the index fails; it returns the lexical result, or the
\* first k chunks when no keyword matches.
C8_QueryFailureFallsBack ==
    (probe.phase = "searched" /\ probe.fn.kind = "semantic" /\ probe.fails) =>
        /\ ~probe.res.raised
        /\ probe.res = NaiveSearch(probe.fn, probe.query, probe.k)

\* the positions in raw of the candidates that score, by falling score,
\* candidates of equal score in the order of raw
RECURSIVE RankFrom(_, _, _)
RankFrom(words, raw, S) ==
    IF S = {} THEN <<>>
    ELSE LET best == CHOOSE i \in S : \A j \in S :
                         \/ Score(words, raw[i]) > Score(words, raw[j])
                         \/ Score(words, raw[i]) = Score(words, raw[j]) /\ i <= j
         IN  <<best>> \o RankFrom(words, raw, S \ {best})

RankedCandidates(words, raw) ==
    RankFrom(words, raw, {i \in 1..Len(raw) : Score(words, raw[i]) >= 1})

\* C26: on the lexical path, when a candidate scores, the result lists the
\* candidates with score >= 1, each cut to max_chars, by non-increasing
\* score, candidates of equal score in pool order, and at most k of them.
C26_LexicalRanking ==
    LET raw == probe.fn.raw
        ranked == RankedCandidates(QueryWords(probe.query), raw)
    IN  (probe.phase = "searched" /\ probe.fn.kind = "naive" /\ ranked # <<>>) =>
            /\ ~probe.res.raised
            /\ probe.res.out =
                  [i \in 1..Min(probe.k, Len(ranked)) |->
                      Slice(raw[ranked[i]], 0, MaxChars)]

\* the texts a document is cut into for the similarity index
ChunksOfDocs(lib, contents) ==
    SplitDocuments(lib, [i \in 1..Len(contents) |-> Doc(contents[i], "-")])

\* C27: every text the lexical fallback of a scoped search function returns
\* on a keyword match is one of the chunks the similarity index would have
\* been built over, and contains at least one of the query words.
C27_LexicalOverSameChunks ==
    LET words == QueryWords(probe.query)
    IN  (/\ probe.phase = "searched" /\ probe.fn.kind = "naive"
         /\ Scored(words, probe.fn.raw) # <<>>) =>
            \A i \in 1..Len(probe.res.out) :
                /\ probe.res.out[i] \in Range(ChunksOfDocs(probe.lib, probe.fn.raw))
                /\ \E w \in Range(words) : Contains(Lower(probe.res.out[i]), w)

\* C9: every text a search function built for paths P returns is a slice of
\* the content of a document at a path of P, and building or calling the
\* function writes neither the durable index nor the whole-pool cache.
C9_OnlyScopeContent ==
    /\ [](probe.phase = "searched" =>
            \A i \in 1..Len(probe.res.out) :
                \E f \in LoadableIn(pool, probe.paths) :
                    IsSliceOf(probe.res.out[i], pool[f].text))
    /\ [][vector_store' = vector_store /\ index_disk' = index_disk]_vars

\* a file of the pool lies outside the scope and the search returned text
C9_Witness ==
    /\ probe.phase = "searched" /\ probe.res.out # <<>>
    /\ pool["z.txt"].ex /\ index_disk.built
    /\ "z.txt" \notin UNION {SelectedBy(pool, probe.paths[i]) : i \in 1..Len(probe.paths)}

\* C16: after set_rag_scope, the request-context state for a non-empty
\* scope that expands to zero files differs from the state an absent scope
\* and an empty scope leave, and retrieval is disabled in all of them.
C16_EmptyDistinctFromZeroFiles ==
    (/\ probe.phase \in {"built", "searched"} /\ probe.via = "set"
     /\ probe.scope.given /\ probe.scope.paths # <<>>
     /\ probe.paths = <<>>) =>
        /\ rag_search_fn_ctx[SlotOf("c1")].kind \in {"none", "empty"}
        /\ rag_search_fn_ctx[SlotOf("c1")] #
              SetRagScope(pool, NoScope, probe.lib, probe.ok, "c1")
        /\ rag_search_fn_ctx[SlotOf("c1")] #
              SetRagScope(pool, Scope(<<>>), probe.lib, probe.ok, "c1")

(***************************************************************************)
(* Properties of scope expansion (SpecExpand).                             *)
(***************************************************************************)
\* a file of the pool that yields a document: present, of an allowed
\* extension, readable, and not blank
Loadable(fs, f) ==
    /\ fs[f].ex /\ fs[f].rd
    /\ Suffix(f) \in AllowedExtensions
    /\ Strip(fs[f].text) # <<>>

\* the loadable files among the members of a sequence of files, in its order
RECURSIVE LoadableOf(_, _, _)
LoadableOf(fs, files, under) ==
    IF files = <<>> THEN <<>>
    ELSE (IF Head(files) \in under /\ Loadable(fs, Head(files))
          THEN <<Head(files)>> ELSE <<>>) \o LoadableOf(fs, Tail(files), under)

\* the files one entry of a batch stands for that can be loaded: the file
\* itself, or the files of the folder in sorted order (a blank entry names
\* nothing)
BatchEntry(fs, p) ==
    LET n == Node(NormRel(p))
    IN  IF NormRel(p) = "" THEN <<>>
        ELSE IF n \in FileSet \cup OutsideFiles
             THEN (IF Loadable(fs, n) THEN <<n>> ELSE <<>>)
        ELSE IF n = "<root>" THEN LoadableOf(fs, Files, FileSet)
        ELSE IF n \in Dirs THEN LoadableOf(fs, Files, FilesUnder(n))
        ELSE <<>>

RECURSIVE Batch(_, _)
Batch(fs, paths) ==
    IF paths = <<>> THEN <<>>
    ELSE BatchEntry(fs, Head(paths)) \o Batch(fs, Tail(paths))

\* C25: loading a batch of paths never raises, drops each file that is
\* unreadable, unsupported, missing or blank, and returns every other file
\* of the batch with its stripped text: files in input order, the files of
\* a folder in sorted order.
C25_BadFileDoesNotAbortBatch ==
    expanded.phase = "loaded" =>
        /\ ~expanded.docs.raised
        /\ LET docs == expanded.docs.out
               files == Batch(pool, expanded.paths)
           IN  /\ Len(docs) = Len(files)
               /\ \A i \in 1..Len(docs) :
                      /\ Node(docs[i].source) = files[i]
                      /\ docs[i].content = Strip(pool[files[i]].text)

\* a batch whose first file is dropped (unreadable or blank) and whose later
\* file is returned
C25_Witness ==
    /\ expanded.phase = "loaded"
    /\ expanded.paths = <<"a.txt", "x/c.bin", "d/b.md">>
    /\ pool["a.txt"].ex /\ ~Loadable(pool, "a.txt")
    /\ expanded.docs = Returned(<<Doc(Strip(TextB), "d/b.md")>>)

\* C29: every path expand_rag_scope returns, and every document
\* _load_documents_from_paths loads, is a file under the content root,
\* also for input paths with ".." segments or of absolute form.
C29_StaysUnderRoot ==
    /\ expanded.phase \in {"once", "twice"} =>
          \A i \in 1..Len(expanded.once) :
              Node(NormRel(expanded.once[i])) \notin OutsideFiles
    /\ expanded.phase = "loaded" =>
          \A i \in 1..Len(expanded.docs.out) :
              Node(expanded.docs.out[i].source) \notin OutsideFiles

\* C14: over an unchanged pool, expand_rag_scope(expand_rag_scope(S)) is
\* expand_rag_scope(S).
C14_ExpandIdempotent ==
    expanded.phase = "twice" => expanded.twice = expanded.once

\* C15: expand_rag_scope returns a sorted list of canonical relative file
\* paths, no two of which denote the same file.
C15_ExpandCanonical ==
    expanded.phase \in {"once", "twice"} =>
        LET out == expanded.once
        IN  /\ \A i, j \in 1..Len(out) : i < j => Rank(out[i]) < Rank(out[j])
            /\ \A i \in 1..Len(out) : Node(out[i]) = out[i]
            /\ \A i, j \in 1..Len(out) : i # j => Node(out[i]) # Node(out[j])

(***************************************************************************)
(* Properties of the conversation memory (SpecMemory).                     *)
(***************************************************************************)
\* no append call is between its two steps
Quiet == \A c \in Ctx : memory_store.thr[c].pc = "idle"

\* the lines of the log file now and at process start
LogLines == IF memory_store.file = None THEN <<>> ELSE SplitLines(memory_store.file[1])

LogLines0 == IF memory_store.file0 = None THEN <<>> ELSE SplitLines(memory_store.file0[1])

\* C17: after any sequence of append calls, the log file is the file of
\* process start followed by one line per append call in call order (no
\* earlier line changed), and the buffer holds the records of exactly
\* those lines in the same order.
C17_AppendOrder ==
    (memory_store.phase = "on" /\ Quiet) =>
        /\ Len(LogLines) = Len(LogLines0) + Len(memory_store.buffer)
        /\ \A i \in 1..Len(LogLines0) : LogLines[i] = LogLines0[i]
        /\ \A i \in 1..Len(memory_store.buffer) :
              Loads(LogLines[Len(LogLines0) + i]) = Some(memory_store.buffer[i])

\* the records of the whole log when every line is well formed
AllRecords == LoadLines(LogLines)

\* C18: for n >= 0 and a log of m well-formed records, load_recent(n)
\* returns the last min(n, m) records of the file in file order, and so
\* never more than n.
C18_LoadRecentLastN ==
    (/\ memory_store.load.done /\ Quiet /\ ~AllRecords.raised
     /\ LoadRecentOf(memory_store.file, memory_store.load.n) = memory_store.load.res) =>
        LET m == Len(AllRecords.out)
            n == memory_store.load.n
        IN  /\ ~memory_store.load.res.raised
            /\ Len(memory_store.load.res.out) = Min(n, m)
            /\ memory_store.load.res.out =
                  SubSeq(AllRecords.out, m - Min(n, m) + 1, m)

\* the well-formed records among some lines, in order
RECURSIVE WellFormed(_)
WellFormed(lines) ==
    IF lines = <<>> THEN <<>>
    ELSE (IF Loads(Head(lines)) = None THEN <<>> ELSE <<Loads(Head(lines))[1]>>)
         \o WellFormed(Tail(lines))

\* C19: when a line of the window load_recent reads is malformed, the
\* call does not raise: it returns the well-formed records of the window
\* in order.
C19_MalformedLineSkipped ==
    (/\ memory_store.load.done /\ Quiet /\ memory_store.file # None
     /\ LoadRecentOf(memory_store.file, memory_store.load.n) = memory_store.load.res) =>
        LET window == PySliceFrom(LogLines, 0 - memory_store.load.n)
        IN  (\E i \in 1..Len(window) : Loads(window[i]) = None) =>
                /\ ~memory_store.load.res.raised
                /\ memory_store.load.res.out = WellFormed(window)

(***************************************************************************)
(* Properties of the configuration and the chunker (SpecConfig).           *)
(***************************************************************************)
\* a variable that is set to something int() refuses
NotNumeric(value) == value # None /\ IntOf(value[1]) = None

\* the chunking configuration the environment asks for makes no sense
Nonsensical ==
    LET size == EnvInt(config.env_size, DefaultChunkSize)
        overlap == EnvInt(config.env_overlap, DefaultChunkOverlap)
    IN  \/ NotNumeric(config.env_size) \/ NotNumeric(config.env_overlap)
        \/ size <= 0 \/ overlap < 0 \/ overlap >= size

\* C22: a nonsensical chunking configuration (chunk size <= 0, overlap < 0,
\* overlap >= chunk size, or a non-numeric value) is rejected when the
\* configuration is created at startup.
C22_BadChunkingRejectedAtStartup ==
    (config.phase \in {"created", "split"} /\ Nonsensical) => config.raised

\* the last n characters of a are the first n characters of b
OverlapBy(a, b, n) ==
    /\ n <= Len(a) /\ n <= Len(b)
    /\ SubSeq(a, Len(a) - n + 1, Len(a)) = SubSeq(b, 1, n)

\* C23: for 0 <= O < S, every chunk has at most S characters plus the
\* tolerance, and consecutive chunks of a document overlap by O characters
\* within the tolerance (a chunk shorter than O overlaps by its length);
\* with the recursive splitter and with the fixed-size one.
C23_ChunkSizeAndOverlap ==
    LET S == config.rag_chunk_size
        O == config.rag_chunk_overlap
        chunks == config.res.out
    IN  (config.phase = "split" /\ 0 <= O /\ O < S) =>
            /\ ~config.res.raised
            /\ \A i \in 1..Len(chunks) : Len(chunks[i]) <= S + Tolerance
            /\ \A i \in 1..(Len(chunks) - 1) :
                  LET most == Min(O, Min(Len(chunks[i]), Len(chunks[i + 1])))
                  IN  \E n \in Max(0, most - Tolerance)..(O + Tolerance) :
                         OverlapBy(chunks[i], chunks[i + 1], n)

(***************************************************************************)
(* Properties of what a turn tells the reasoning loop (SpecTold).          *)
(***************************************************************************)
\* a search function is installed in the request context of the turn
Installed == rag_search_fn_ctx[SlotOf("c1")] # NoneFn

\* C24: the reasoning loop is told that retrieval is enabled (the hint on
\* the user input, the answer-only prompt block, and no web_fetch in
\* documents-only mode) exactly when a search function is installed in the
\* request context for the turn; a scope that expands to zero files is
\* presented as retrieval disabled.
C24_ToldExactlyWhenInstalled ==
    told.phase = "told" =>
        /\ told.hint <=> Installed
        /\ told.answer_only <=> Installed
        /\ told.offline <=> (Installed /\ told.rag_documents_only)
        /\ ~told.include_web_fetch <=> (Installed /\ told.rag_documents_only)

(***************************************************************************)
(* Properties of the tool-use trace (SpecTools).                           *)
(***************************************************************************)
\* the capability names a record carries: those of an assistant record's
\* tool calls, the one of a tool-result record
RECURSIVE NamesOfCalls(_)
NamesOfCalls(tcs) ==
    IF tcs = <<>> THEN <<>>
    ELSE LET tc == Head(tcs)
             n == IF Truthy(tc.name) THEN tc.name ELSE tc.tool
         IN  (IF Truthy(n) THEN <<n[1]>> ELSE <<>>) \o NamesOfCalls(Tail(tcs))

Carried(m) ==
    CASE m.kind = "ai" -> NamesOfCalls(OrEmpty(m.tool_calls))
      [] m.kind = "tool" -> IF Truthy(m.name) THEN <<m.name[1]>> ELSE <<>>
      [] OTHER -> <<>>

\* a list without its repetitions, in order of first appearance
RECURSIVE FirstSeen(_, _)
FirstSeen(seen, names) ==
    IF names = <<>> THEN <<>>
    ELSE IF Head(names) \in seen THEN FirstSeen(seen, Tail(names))
         ELSE <<Head(names)>> \o FirstSeen(seen \cup {Head(names)}, Tail(names))

RECURSIVE CarriedBy(_)
CarriedBy(messages) ==
    IF messages = <<>> THEN <<>>
    ELSE Carried(Head(messages)) \o CarriedBy(Tail(messages))

\* C20: _tools_used_from_messages returns, without raising, exactly the
\* names of the assistant records' tool calls and of the tool-result
\* records, each once, in order of first appearance, and no name of any
\* other kind of record.
C20_ToolsUsedExact ==
    tools_used.phase = "done" =>
        /\ ~tools_used.res.raised
        /\ tools_used.res.out = FirstSeen({}, CarriedBy(tools_used.messages))

(***************************************************************************)
(* Properties of the whole-pool index (SpecIndex).                         *)
(***************************************************************************)
\* the index a build from the documents now in the pool gives
BuiltFromPool(fs, lib) == Index(SplitDocuments(lib, LoadDocumentsFromDocsDir(fs)))

\* C10: when rag_rebuild_index has completed, the cached index and the
\* durable copy are the index built from the documents then in the pool.
C10_RebuildReflectsPool ==
    (idx.last = "rebuilt" /\ LoadDocumentsFromDocsDir(pool) # <<>>) =>
        /\ vector_store = BuiltFromPool(pool, idx.lib)
        /\ index_disk = BuiltFromPool(pool, idx.lib)

\* C11: while rag_rebuild_index runs beside rag_search calls, the cached
\* index is replaced only by a fully built one: once there is an index in
\* memory, no step leaves the reference absent.
C11_RebuildReplacesAtomically ==
    [][vector_store.built => vector_store'.built]_vars

\* the documents of the pool and the chunks a build from them gives
PoolDocs == LoadDocumentsFromDocsDir(pool)

PoolChunks == SplitDocuments(idx.lib, PoolDocs)

\* C12: when rag_search ran on the lexical fallback, the pool holds a
\* non-empty document and no document scores for the query, the result is
\* the first k chunks in pool order, and not empty (k >= 1).
C12_NaiveFirstK ==
    (/\ idx.last = "search" /\ idx.naive
     /\ PoolDocs # <<>>
     /\ Scored(QueryWords(idx.query), Contents(PoolDocs)) = <<>>
     /\ idx.k >= 1) =>
        /\ ~idx.res.raised
        /\ idx.res.out # <<>>
        /\ idx.res.out = Slice(FallbackChunks(PoolDocs), 0, idx.k)

\* no text of the last rag_search result is the placeholder chunk
NoPlaceholder ==
    \A i \in 1..Len(idx.res.out) : Strip(idx.res.out[i]) # Placeholder

\* C13 as stated: rag_search over a pool that yields zero chunks returns
\* an empty list without raising, and no result holds the placeholder.
C13_EmptyPoolEmptyResult ==
    idx.last = "search" =>
        /\ PoolChunks = <<>> => idx.res = Returned(<<>>)
        /\ NoPlaceholder

\* C13, amended: rag_search over a pool that yields zero chunks returns an
\* empty list without raising when the index it searched was built from
\* that pool (the cached or stored index of an earlier, non-empty pool is
\* searched as it is), and no result of rag_search holds the placeholder.
C13_EmptyIndexEmptyResult ==
    idx.last = "search" =>
        /\ (PoolChunks = <<>> /\ (idx.naive \/ vector_store = EmptyVectorStore)) =>
              idx.res = Returned(<<>>)
        /\ NoPlaceholder

\* the empty index answered with its placeholder and nothing was returned
C13_Witness ==
    /\ idx.last = "search" /\ ~idx.naive /\ idx.found >= 1
    /\ PoolChunks = <<>> /\ vector_store = EmptyVectorStore
    /\ idx.res = Returned(<<>>)

(***************************************************************************)
(* Properties of provider keys (SpecLlm).                                  *)
(***************************************************************************)
\* C4: with an explicit credential set (the argument, or else the request
\* context's), the key handed to openai, google or perplexity is the
\* supplied non-blank secret or the no-key sentinel, and never the value of
\* the environment.
C4_ExplicitKeysNeverAmbient ==
    LET keys == IF llm.api_keys.given THEN llm.api_keys
                ELSE api_keys_ctx[SlotOf("c1")]
        p == llm.provider
    IN  (llm.phase = "done" /\ keys.given /\ p \in Providers) =>
            /\ ~llm.out.raised
            /\ \/ llm.out.key = Some(NoKeySentinel)
               \/ NonBlank(keys.m[p]) /\ llm.out.key = keys.m[p]
            /\ NonBlank(keys.m[p]) => llm.out.key = keys.m[p]
            /\ llm.out.key # environ[p]
            /\ llm.out.key # None

\* an explicit credential set with a blank entry, while the environment
\* holds a key for the provider: the sentinel is handed over
C4_Witness ==
    /\ llm.phase = "done" /\ llm.api_keys.given
    /\ llm.provider = "google"
    /\ llm.api_keys.m["google"] = Some(<<" ">>)
    /\ NonBlank(environ["google"])
    /\ llm.out.key = Some(NoKeySentinel)

(***************************************************************************)
(* Properties of concurrent turns (Spec).                                  *)
(***************************************************************************)
\* C1: in every interleaving of two turns, get_rag_search_fn() inside a
\* turn gives the value that turn's set_rag_scope stored, or None; never a
\* function another context built.
C1_ScopeIsolation ==
    \A c \in Ctx :
        turn[c].saw.seen = "fn" =>
            /\ turn[c].saw.fn \in {turn[c].mine, NoneFn}
            /\ turn[c].saw.fn.id \in {c, "-"}

\* two turns with different scopes are in flight, each has installed a
\* search function, and one has read its own
C1_Witness ==
    /\ turn["c1"].saw.seen = "fn" /\ turn["c1"].saw.fn.kind # "none"
    /\ turn["c2"].pc \in {"history", "graph", "invoke"}
    /\ turn["c2"].mine.kind # "none"
    /\ turn["c1"].rag_scope # turn["c2"].rag_scope

\* C21: when a turn B has started and ended (scope set, then teardown)
\* inside the execution context of a turn A that is still in flight, what
\* A's get_rag_search_fn() returns after B's teardown is the search
\* function A installed.
C21_NestedTurnKeepsScope ==
    [][(/\ turn[Outer].pc = "invoke"
        /\ turn[Inner].pc = "idle"
        /\ turn[Inner].ended \in {"returned", "raised"}
        /\ turn'[Outer].saw.seen = "fn"
        /\ turn'[Outer].saw # turn[Outer].saw)
       => turn'[Outer].saw.fn = turn[Outer].mine]_vars

\* C2: when run_supervisor has returned, or raised after its scope was
\* installed, get_rag_search_fn() in that context gives None.
C2_ScopeAlwaysCleared ==
    \A c \in Ctx :
        (turn[c].pc = "idle" /\ turn[c].ended \in {"returned", "raised"}) =>
            rag_search_fn_ctx[SlotOf(c)] = NoneFn

\* a turn with a non-empty scope raised inside the try and has ended
C2_Witness ==
    /\ turn["c1"].pc = "idle" /\ turn["c1"].ended = "raised"
    /\ turn["c1"].rag_scope = Scope(<<"a.txt">>)
    /\ rag_search_fn_ctx[SlotOf("c1")] = NoneFn

\* C28: once every turn that was in flight has finished, by return or by
\* exception at any step, the three provider variables of the process
\* environment hold the values they had before the first turn.
C28_EnvironmentRestored ==
    (\A c \in Ctx : turn[c].pc = "idle" /\ turn[c].ended # "-") =>
        environ = Env0

\* C30: run_supervisor appends to memory exactly when it returns: a call
\* that raises has appended nothing, and a call that returns has appended
\* the user record, the assistant record, and then the critique record if
\* the critique was requested.
C30_MemoryOnlyOnSuccess ==
    [][\A c \in Ctx :
          (turn[c].pc # "idle" /\ turn'[c].pc = "idle") =>
              /\ turn'[c].ended \in {"raised", "raised before try"} =>
                    turn[c].appended = <<>>
              /\ turn'[c].ended = "returned" =>
                    turn[c].appended =
                       IF turn[c].include_critique
                       THEN TurnRecords \o CritiqueRecord
                       ELSE TurnRecords]_vars

\* C3: after a turn that supplied a credential set has finished, the
\* request context holds no credential set, and a later turn in the same
\* context that supplies none resolves its keys from the ambient defaults.
C3_CredentialsCleared ==
    \A c \in Ctx :
        /\ (turn[c].pc = "idle" /\ turn[c].ended # "-") =>
              ~api_keys_ctx[SlotOf(c)].given
        /\ (turn[c].saw.seen = "llm" /\ ~turn[c].api_keys.given) =>
              ~turn[c].saw.llm.explicit

\* the key a provider gets from the environment as it was before any turn
AmbientKey(provider) == GetBaseLlm(provider, NoKeys, NoKeys, Env0).key

\* C5: a turn that supplies no credential set, in a context that holds
\* none, reads the ambient keys as they were before any turn started,
\* whatever the turns running beside it do.
C5_AmbientKeysUndisturbed ==
    \A c \in Ctx :
        (/\ turn[c].saw.seen = "llm"
         /\ ~turn[c].api_keys.given
         /\ ~api_keys_ctx[SlotOf(c)].given) =>
            turn[c].saw.llm.key = AmbientKey(turn[c].saw.provider)
====
